---- MODULE Spec2Model ----
(***************************************************************************)
(* State machine of the CameraView component (camera session, capture      *)
(* orchestration) of BigKevT/Andriod-Camera-Test.                          *)
(*                                                                         *)
(* The repository holds four versions of the component:                    *)
(*   "main"   src/src/components/CameraView.jsx                            *)
(*   "lock"   src/unnamed/part_000           (focus lock before capture)   *)
(*   "zoom"   src/unnamed/part_001, 1-324    (clamped initial zoom)        *)
(*   "legacy" src/unnamed/part_001, 326-557  (no streamRef)                *)
(* The variable variant says which one runs; it never changes.             *)
(*                                                                         *)
(* One action is one run of JavaScript between two awaits: an event        *)
(* handler up to its first pending await, or the continuation of one       *)
(* settled promise or fired timer up to the next pending await.  React     *)
(* state read inside a handler is the state of the render the handler was  *)
(* created in, so every invocation carries the values it closed over.      *)
(* Zoom values are scaled by 10 (1.0 is 10).                               *)
(***************************************************************************)
EXTENDS Integers, Sequences, FiniteSets, TLC

\* a run has at most MaxStarts calls of startCamera, MaxCaptures of
\* captureStrategy, MaxUi of handleZoomChange and handleTapToFocus, and
\* MaxCalls of all of them together
MaxStarts == 2
MaxCaptures == 2
MaxUi == 2
MaxCalls == 3

Variants == {"main", "lock", "zoom", "legacy"}

VARIABLES
  variant,        \* which version of the component runs
  mounted,        \* the component is mounted (videoRef/canvasRef are set)
  facingMode,     \* useState('environment')
  stream,         \* useState(null): 0 is null, else an index into streams
  streamRef,      \* useRef(null)
  cbStream,       \* stream as closed over by startCamera/useEffect (legacy)
  srcObject,      \* videoRef.current.srcObject
  error,          \* useState(null): TRUE when a message is set
  loading,        \* useState(true)
  processing,     \* useState(false)
  torchSupported, \* useState(false)
  zoom,           \* useState(1)
  zoomRange,      \* useState({min: 1, max: 1})
  showZoom,       \* useState(false)
  capturedImage,  \* useState(null): 0 is null, else the capture that set it
  streams,        \* every MediaStream getUserMedia has returned
  starts,         \* startCamera invocations
  caps,           \* captureStrategy invocations
  video,          \* the frame the video element shows
  canvas,         \* the hidden canvas of canvasRef
  rig,            \* which cameras the device has
  ui,             \* handleZoomChange / handleTapToFocus invocations
  lab             \* a call of isLowLight or applyFilters on its own

vars == <<variant, mounted, facingMode, stream, streamRef, cbStream, srcObject,
          error, loading, processing, torchSupported, zoom, zoomRange,
          showZoom, capturedImage, streams, starts,
          caps, video, canvas, rig, ui, lab>>

sessionVars == <<facingMode, stream, streamRef, cbStream, error, loading,
                 torchSupported, zoom, zoomRange, showZoom>>
captureVars == <<processing, capturedImage, caps, canvas>>

Min(a, b) == IF a < b THEN a ELSE b
Max(a, b) == IF a > b THEN a ELSE b

(***************************************************************************)
(* The device: what a MediaStreamTrack offers.  zoom is <<min, max>> or    *)
(* <<>> when the capability is absent.                                     *)
(***************************************************************************)
ProfileNames == {"full", "plain", "bare", "tele", "fixed"}

Profile(p) ==
  CASE p = "full"  -> [getCapabilities |-> TRUE, applyConstraints |-> TRUE,
                       torch |-> TRUE, zoom |-> <<10, 50>>,
                       focusMode |-> {"continuous", "single-shot", "macro"},
                       focusDistance |-> TRUE]
    [] p = "plain" -> [getCapabilities |-> TRUE, applyConstraints |-> TRUE,
                       torch |-> FALSE, zoom |-> <<>>,
                       focusMode |-> {}, focusDistance |-> FALSE]
    [] p = "tele"  -> [getCapabilities |-> TRUE, applyConstraints |-> TRUE,
                       torch |-> TRUE, zoom |-> <<20, 50>>,
                       focusMode |-> {"continuous"}, focusDistance |-> FALSE]
    [] p = "fixed" -> [getCapabilities |-> TRUE, applyConstraints |-> FALSE,
                       torch |-> FALSE, zoom |-> <<10, 30>>,
                       focusMode |-> {}, focusDistance |-> FALSE]
    [] OTHER       -> [getCapabilities |-> FALSE, applyConstraints |-> FALSE,
                       torch |-> FALSE, zoom |-> <<>>,
                       focusMode |-> {}, focusDistance |-> FALSE]

\* the cameras getUserMedia may give for a facing mode.  On a "phone" the
\* back camera has the torch and "bare" is a browser without getCapabilities
\* and applyConstraints; a "tele" device has a back camera whose zoom starts
\* at 2.0, or one whose zoom is reported but cannot be set.
Rigs == {"phone", "tele"}

Cameras(facing) ==
  IF rig = "phone"
  THEN IF facing = "environment" THEN {"full", "bare"} ELSE {"plain", "bare"}
  ELSE IF facing = "environment" THEN {"tele", "fixed"} ELSE {"plain"}

NoCapabilities == [torch |-> FALSE, zoom |-> <<>>, focusMode |-> {},
                   focusDistance |-> FALSE]

\* track.getCapabilities ? track.getCapabilities() : {}
getCapabilities(p) ==
  IF Profile(p).getCapabilities
  THEN [torch |-> Profile(p).torch, zoom |-> Profile(p).zoom,
        focusMode |-> Profile(p).focusMode,
        focusDistance |-> Profile(p).focusDistance]
  ELSE NoCapabilities

(***************************************************************************)
(* Frames.  A frame has w columns and h rows; its left half has colour cL  *)
(* and its right half cR, so that mirroring is visible.  w = h = 0 is the  *)
(* video element before its first frame (videoWidth = videoHeight = 0).    *)
(***************************************************************************)
Dim == <<60, 60, 60>>
White == <<255, 255, 255>>
Transparent == <<0, 0, 0>>
Colours == {Dim, White}

NotReady == [w |-> 0, h |-> 0, cL |-> Transparent, cR |-> Transparent]
ReadyFrames == {[w |-> 50, h |-> 50, cL |-> Dim, cR |-> r] : r \in Colours}

\* what the video element shows once the track it plays has been stopped: a
\* black picture of the size of the frame it showed, of 2 x 2 when it had
\* shown none
Black == <<0, 0, 0>>
Ended(v) == IF v.w > 0 THEN [w |-> v.w, h |-> v.h, cL |-> Black, cR |-> Black]
            ELSE [w |-> 2, h |-> 2, cL |-> Black, cR |-> Black]
EndedFrames == {Ended(v) : v \in ReadyFrames \cup {NotReady}}
Frames == ReadyFrames \cup EndedFrames \cup {NotReady}

\* the colour of column x (0-based) of frame v
FramePixel(v, x) == IF 2 * x < v.w THEN v.cL ELSE v.cR
FramePx(v) == [x \in 1..v.w |-> FramePixel(v, x - 1)]

NullCanvas == [w |-> 0, h |-> 0, px |-> <<>>, by |-> 0]

StopTracks(ss, sid) ==
  IF sid = 0 THEN ss ELSE [ss EXCEPT ![sid].live = FALSE, ![sid].torch = FALSE]

\* setState on an unmounted component is dropped by React
Set(new, old) == IF mounted' THEN new ELSE old

\* no part of isLowLight or applyFilters is being run on its own
NoLab == [op |-> "none"]

InitComponent ==
  /\ variant \in Variants
  /\ mounted = FALSE
  /\ facingMode = "environment"
  /\ stream = 0
  /\ streamRef = 0
  /\ cbStream = 0
  /\ srcObject = 0
  /\ error = FALSE
  /\ loading = TRUE
  /\ processing = FALSE
  /\ torchSupported = FALSE
  /\ zoom = 10
  /\ zoomRange = <<10, 10>>
  /\ showZoom = FALSE
  /\ capturedImage = 0
  /\ streams = <<>>
  /\ starts = <<>>
  /\ caps = <<>>
  /\ video = NotReady
  /\ canvas = NullCanvas
  /\ ui = <<>>

Init == InitComponent /\ rig = "phone" /\ lab = NoLab

(***************************************************************************)
(* startCamera, up to the await of getUserMedia.  The previous stream is   *)
(* stopped through streamRef (main, lock: and the ref cleared; zoom: the   *)
(* ref kept) or through the stream the callback closed over (legacy).      *)
(* cleaned is the stream the effect cleanup has just stopped (0: none).     *)
(* When the track the video element plays is stopped, the element goes     *)
(* black, in this step (blanked) or later (VideoEnded).                    *)
(***************************************************************************)
startCamera(cleaned, blanked) ==
  LET prev == IF variant = "legacy" THEN cbStream' ELSE streamRef IN
  /\ Len(starts) < MaxStarts /\ Len(starts) + Len(caps) + Len(ui) < MaxCalls
  /\ loading' = Set(TRUE, loading)
  /\ error' = Set(FALSE, error)
  /\ torchSupported' = Set(FALSE, torchSupported)
  /\ showZoom' = IF variant = "legacy" THEN showZoom ELSE Set(FALSE, showZoom)
  /\ streams' = StopTracks(StopTracks(streams, cleaned), prev)
  /\ video' = IF /\ srcObject # 0 /\ streams[srcObject].live
                     /\ ~streams'[srcObject].live /\ blanked
               THEN Ended(video) ELSE video
  /\ streamRef' = IF variant \in {"main", "lock"} THEN 0 ELSE streamRef
  /\ starts' = Append(starts, [pc |-> "getUserMedia", facing |-> facingMode',
                               z |-> 10, sid |-> 0])

\* the cleanup the effect returned: stop the tracks of streamRef.current
\* (legacy: of the stream the effect closed over)
effectCleanup == IF variant = "legacy" THEN cbStream ELSE streamRef

\* useEffect(() => { startCamera(); return cleanup }, [startCamera]), first run
Mount ==
  /\ ~mounted /\ starts = <<>>
  /\ mounted' = TRUE
  /\ facingMode' = facingMode
  /\ cbStream' = stream
  /\ startCamera(0, FALSE)
  /\ UNCHANGED <<variant, rig, ui, lab, stream, srcObject, zoom, zoomRange>>
  /\ UNCHANGED captureVars

\* switchCamera: the facing mode flips, startCamera is a new callback, the
\* effect is cleaned up and run again
switchCamera ==
  /\ mounted
  /\ mounted' = mounted
  /\ facingMode' = IF facingMode = "user" THEN "environment" ELSE "user"
  /\ cbStream' = stream
  /\ \E blanked \in BOOLEAN : startCamera(effectCleanup, blanked)
  /\ UNCHANGED <<variant, rig, ui, lab, stream, srcObject, zoom, zoomRange>>
  /\ UNCHANGED captureVars

\* the retry button of the error message: onClick={startCamera}
Retry ==
  /\ mounted /\ error
  /\ mounted' = mounted
  /\ facingMode' = facingMode
  /\ cbStream' = cbStream
  /\ \E blanked \in BOOLEAN : startCamera(0, blanked)
  /\ UNCHANGED <<variant, rig, ui, lab, stream, srcObject, zoom, zoomRange>>
  /\ UNCHANGED captureVars

\* the component is unmounted: the effect is cleaned up, the refs are nulled
Unmount ==
  /\ mounted
  /\ mounted' = FALSE
  /\ streams' = StopTracks(streams, effectCleanup)
  /\ UNCHANGED <<variant, rig, ui, lab, srcObject, starts, video>>
  /\ UNCHANGED sessionVars
  /\ UNCHANGED captureVars

(***************************************************************************)
(* What startCamera does with the capabilities of the new track, up to its *)
(* next await: throws (getCapabilities is called unguarded in legacy), the *)
(* torch flag, the zoom range and initial zoom, and where it waits next.   *)
(***************************************************************************)
negotiate(p) ==
  LET c == getCapabilities(p)
      hasZoom == c.zoom # <<>>
      apply == Profile(p).applyConstraints
      initialZoom == IF hasZoom THEN Min(Max(15, c.zoom[1]), c.zoom[2]) ELSE 10
  IN CASE variant = "main" ->
            [throws |-> FALSE, torch |-> c.torch,
             zoomRange |-> IF hasZoom THEN c.zoom ELSE zoomRange,
             zoom |-> zoom, showZoom |-> FALSE, z |-> 10,
             next |-> IF hasZoom /\ apply THEN "zoom" ELSE "done"]
       [] variant = "lock" ->
            [throws |-> FALSE, torch |-> c.torch, zoomRange |-> zoomRange,
             zoom |-> zoom, showZoom |-> FALSE, z |-> 10, next |-> "done"]
       [] variant = "zoom" ->
            [throws |-> FALSE, torch |-> c.torch,
             zoomRange |-> IF hasZoom THEN c.zoom ELSE zoomRange,
             zoom |-> IF hasZoom THEN initialZoom ELSE zoom,
             showZoom |-> hasZoom, z |-> initialZoom,
             next |-> IF ~apply THEN "done" ELSE IF hasZoom THEN "zoom" ELSE "focus"]
       [] OTHER ->
            [throws |-> ~Profile(p).getCapabilities, torch |-> c.torch,
             zoomRange |-> zoomRange, zoom |-> zoom, showZoom |-> FALSE, z |-> 10,
             next |-> IF apply THEN "focus" ELSE "done"]

\* getUserMedia resolves with a new stream for invocation i
getUserMediaResolve(i, p) ==
  LET new == Len(streams) + 1
      n == negotiate(p)
  IN
  /\ starts[i].pc = "getUserMedia"
  /\ p \in Cameras(starts[i].facing)
  /\ mounted' = mounted
  /\ streams' = Append(streams, [facing |-> starts[i].facing, prof |-> p,
                                 live |-> TRUE, torch |-> FALSE, zoom |-> 10])
  /\ stream' = Set(new, stream)
  /\ streamRef' = IF variant = "legacy" THEN streamRef ELSE new
  /\ srcObject' = IF mounted THEN new ELSE srcObject
  /\ video' = IF mounted THEN NotReady ELSE video
  /\ showZoom' = Set(showZoom \/ (~n.throws /\ n.showZoom), showZoom)
  /\ IF n.throws
     THEN /\ error' = Set(TRUE, error)
          /\ loading' = Set(FALSE, loading)
          /\ starts' = [starts EXCEPT ![i].pc = "failed", ![i].sid = new]
          /\ UNCHANGED <<torchSupported, zoom, zoomRange>>
     ELSE /\ torchSupported' = Set(n.torch \/ torchSupported, torchSupported)
          /\ zoomRange' = Set(n.zoomRange, zoomRange)
          /\ zoom' = Set(n.zoom, zoom)
          /\ loading' = IF n.next = "done" THEN Set(FALSE, loading) ELSE loading
          /\ starts' = [starts EXCEPT ![i].pc = n.next, ![i].z = n.z,
                                      ![i].sid = new]
          /\ error' = error
  /\ UNCHANGED <<variant, rig, ui, lab, facingMode, cbStream>>
  /\ UNCHANGED captureVars

\* getUserMedia rejects: the catch of startCamera
getUserMediaReject(i) ==
  /\ starts[i].pc = "getUserMedia"
  /\ mounted' = mounted
  /\ error' = Set(TRUE, error)
  /\ loading' = Set(FALSE, loading)
  /\ starts' = [starts EXCEPT ![i].pc = "failed"]
  /\ UNCHANGED <<variant, rig, ui, lab, facingMode, stream, streamRef, cbStream, srcObject,
                 torchSupported, zoom, zoomRange, showZoom, streams, video>>
  /\ UNCHANGED captureVars

\* the applyConstraints startCamera awaits settles: the initial zoom (ok:
\* the track takes it), then, in zoom and legacy, the focus/exposure hints
applySettled(i, ok) ==
  LET s == starts[i]
      took == ok /\ streams[s.sid].live
  IN
  /\ s.pc \in {"zoom", "focus"}
  /\ mounted' = mounted
  /\ streams' = IF s.pc = "zoom" /\ took
                THEN [streams EXCEPT ![s.sid].zoom = s.z] ELSE streams
  /\ zoom' = IF s.pc = "zoom" /\ variant = "main" THEN Set(10, zoom) ELSE zoom
  /\ showZoom' = IF s.pc = "zoom" /\ variant = "main" /\ ok
                 THEN Set(TRUE, showZoom) ELSE showZoom
  /\ IF s.pc = "zoom" /\ variant = "zoom"
     THEN /\ starts' = [starts EXCEPT ![i].pc = "focus"]
          /\ loading' = loading
     ELSE /\ starts' = [starts EXCEPT ![i].pc = "done"]
          /\ loading' = Set(FALSE, loading)
  /\ UNCHANGED <<variant, rig, ui, lab, facingMode, stream, streamRef, cbStream, srcObject,
                 error, torchSupported, zoomRange, video>>
  /\ UNCHANGED captureVars

(***************************************************************************)
(* Natural numbers of any size: a sequence of limbs, least significant     *)
(* first, each in 0..Limb-1, without leading zero limbs (0 is <<>>).       *)
(***************************************************************************)
LimbBits == 15
Limb == 2^LimbBits

RECURSIVE BigTrim(_)
BigTrim(a) ==
  IF a # <<>> /\ a[Len(a)] = 0 THEN BigTrim(SubSeq(a, 1, Len(a) - 1)) ELSE a

RECURSIVE BigFromNat(_)
BigFromNat(n) == IF n = 0 THEN <<>> ELSE <<n % Limb>> \o BigFromNat(n \div Limb)

RECURSIVE BigToNat(_)
BigToNat(a) == IF a = <<>> THEN 0 ELSE a[1] + Limb * BigToNat(Tail(a))

BigLimb(a, i) == IF i <= Len(a) THEN a[i] ELSE 0
BigZeros(n) == [i \in 1..n |-> 0]

RECURSIVE BigAddFrom(_, _, _, _)
BigAddFrom(a, b, i, carry) ==
  IF i > Len(a) /\ i > Len(b)
  THEN IF carry = 0 THEN <<>> ELSE <<carry>>
  ELSE LET t == BigLimb(a, i) + BigLimb(b, i) + carry
       IN <<t % Limb>> \o BigAddFrom(a, b, i + 1, t \div Limb)

BigAdd(a, b) == BigAddFrom(a, b, 1, 0)

\* a - b, for a >= b
RECURSIVE BigSubFrom(_, _, _, _)
BigSubFrom(a, b, i, borrow) ==
  IF i > Len(a) THEN <<>>
  ELSE LET t == a[i] - BigLimb(b, i) - borrow
       IN <<IF t < 0 THEN t + Limb ELSE t>>
            \o BigSubFrom(a, b, i + 1, IF t < 0 THEN 1 ELSE 0)

BigSub(a, b) == BigTrim(BigSubFrom(a, b, 1, 0))

RECURSIVE BigCmpFrom(_, _, _)
BigCmpFrom(a, b, i) ==
  IF i = 0 THEN 0
  ELSE IF a[i] > b[i] THEN 1
  ELSE IF a[i] < b[i] THEN -1
  ELSE BigCmpFrom(a, b, i - 1)

\* -1, 0, 1 as a < b, a = b, a > b
BigCmp(a, b) ==
  IF Len(a) > Len(b) THEN 1
  ELSE IF Len(a) < Len(b) THEN -1
  ELSE BigCmpFrom(a, b, Len(a))

\* a * k for a limb k
RECURSIVE BigMulLimbFrom(_, _, _, _)
BigMulLimbFrom(a, k, i, carry) ==
  IF i > Len(a)
  THEN IF carry = 0 THEN <<>> ELSE <<carry>>
  ELSE LET t == a[i] * k + carry
       IN <<t % Limb>> \o BigMulLimbFrom(a, k, i + 1, t \div Limb)

BigMulLimb(a, k) == IF k = 0 THEN <<>> ELSE BigMulLimbFrom(a, k, 1, 0)

RECURSIVE BigMulFrom(_, _, _)
BigMulFrom(a, b, j) ==
  IF j > Len(b) THEN <<>>
  ELSE LET row == BigMulLimb(a, b[j])
       IN BigAdd(IF row = <<>> THEN <<>> ELSE BigZeros(j - 1) \o row,
                 BigMulFrom(a, b, j + 1))

BigMul(a, b) == BigMulFrom(a, b, 1)

\* a * 2^n
BigShl(a, n) ==
  IF a = <<>> \/ n = 0 THEN a
  ELSE BigZeros(n \div LimbBits) \o BigMulLimb(a, 2^(n % LimbBits))

\* a \div 2^n
BigShr(a, n) ==
  LET q == n \div LimbBits
      r == n % LimbBits
      hi == SubSeq(a, q + 1, Len(a))
  IN BigTrim([i \in 1..Len(hi) |->
                (hi[i] \div 2^r) + (BigLimb(hi, i + 1) % 2^r) * 2^(LimbBits - r)])

\* a % 2^n
BigLow(a, n) ==
  LET q == n \div LimbBits
      r == n % LimbBits
  IN IF Len(a) <= q THEN a
     ELSE BigTrim(SubSeq(a, 1, q) \o <<a[q + 1] % 2^r>>)

BigBitLen(a) ==
  IF a = <<>> THEN 0
  ELSE LimbBits * (Len(a) - 1)
         + (CHOOSE k \in 1..LimbBits : 2^(k - 1) <= a[Len(a)] /\ a[Len(a)] < 2^k)

BigIsOdd(a) == a # <<>> /\ a[1] % 2 = 1

\* the largest q <= guess with d * q <= r
RECURSIVE BigDivDigit(_, _, _)
BigDivDigit(r, d, guess) ==
  IF BigCmp(BigMulLimb(d, guess), r) = 1 THEN BigDivDigit(r, d, guess - 1)
  ELSE guess

\* long division of n by d, whose top limb has its top bit set: the quotient
\* of the limbs i and below and the remainder, given the remainder rem of
\* the limbs of n above i
RECURSIVE BigDivFrom(_, _, _, _)

\* the quotient limb q put above the result for the limbs below
BigDivCons(q, below) == <<below[1] \o <<q>>, below[2]>>

\* r: the remainder so far with limb i of n appended; q: its quotient limb
BigDivNext(n, d, i, r, q) ==
  IF q = 0 THEN BigDivCons(0, BigDivFrom(n, d, i - 1, r))
  ELSE BigDivCons(q, BigDivFrom(n, d, i - 1, BigSub(r, BigMulLimb(d, q))))

\* the quotient limb is at most the quotient of the top limbs
BigDivStep(n, d, i, r) ==
  BigDivNext(n, d, i, r,
             BigDivDigit(r, d, Min(Limb - 1,
                                   (BigLimb(r, Len(d) + 1) * Limb + BigLimb(r, Len(d)))
                                     \div d[Len(d)])))

BigDivFrom(n, d, i, rem) ==
  IF i = 0 THEN <<<<>>, rem>>
  ELSE BigDivStep(n, d, i, BigTrim(<<n[i]>> \o rem))

BigDivUnscale(qr, sh) == <<BigTrim(qr[1]), BigShr(qr[2], sh)>>
BigDivScaled(n, d, sh) == BigDivUnscale(BigDivFrom(n, d, Len(n), <<>>), sh)

\* <<n \div d, n % d>> for d other than 0; n and d are scaled to set the top
\* bit of the top limb of d
BigDivMod(n, d) ==
  LET sh == LimbBits * Len(d) - BigBitLen(d)
  IN BigDivScaled(BigShl(n, sh), BigShl(d, sh), sh)

(***************************************************************************)
(* IEEE 754 binary64 numbers, as JavaScript computes with them: a number   *)
(* is s * m * 2^e with s the sign, m a natural number of at most 53 bits   *)
(* and e an integer.  Every operation gives the representable number       *)
(* nearest to the exact result, the one with the even significand at a     *)
(* tie.  (The numbers here stay far from the ends of the exponent range.)  *)
(***************************************************************************)
Precision == 53

\* q with the part c rounded off: c is the rounded-off part compared with
\* one half (1: more), sticky: the exact value is a little more still
F64RoundOff(s, q, c, e, sticky) ==
  [s |-> s, e |-> e,
   m |-> IF c = 1 \/ (c = 0 /\ (sticky \/ BigIsOdd(q))) THEN BigAdd(q, <<1>>) ELSE q]

\* k: the number of low bits of m to round off
F64RoundBits(s, m, e, sticky, k) ==
  IF k <= 0 THEN [s |-> s, m |-> m, e |-> e]
  ELSE F64RoundOff(s, BigShr(m, k), BigCmp(BigLow(m, k), BigShl(<<1>>, k - 1)),
                   e + k, sticky)

\* the number nearest to s * m * 2^e; sticky: the exact value is a little
\* more than m * 2^e in magnitude
F64Round(s, m, e, sticky) == F64RoundBits(s, m, e, sticky, BigBitLen(m) - Precision)

F64Zero == [s |-> 1, m |-> <<>>, e |-> 0]
F64FromInt(n) == [s |-> IF n < 0 THEN -1 ELSE 1,
                  m |-> BigFromNat(IF n < 0 THEN -n ELSE n), e |-> 0]
F64Neg(a) == [a EXCEPT !.s = -a.s]

F64Mul(a, b) ==
  IF a.m = <<>> \/ b.m = <<>> THEN [s |-> a.s * b.s, m |-> <<>>, e |-> 0]
  ELSE F64Round(a.s * b.s, BigMul(a.m, b.m), a.e + b.e, FALSE)

\* x and y: the significands at the common exponent e; c: x compared with y
F64AddAligned(sa, x, sb, y, e, c) ==
  IF sa # sb /\ c = 0 THEN F64Zero
  ELSE F64Round(IF sa = sb \/ c = 1 THEN sa ELSE sb,
                IF sa = sb THEN BigAdd(x, y)
                ELSE IF c = 1 THEN BigSub(x, y) ELSE BigSub(y, x),
                e, FALSE)

F64AddAt(a, b, e, x, y) == F64AddAligned(a.s, x, b.s, y, e, BigCmp(x, y))

F64Add(a, b) ==
  IF a.m = <<>> THEN b
  ELSE IF b.m = <<>> THEN a
  ELSE LET e == Min(a.e, b.e)
       IN F64AddAt(a, b, e, BigShl(a.m, a.e - e), BigShl(b.m, b.e - e))

F64Sub(a, b) == F64Add(a, F64Neg(b))

\* qr: quotient and remainder of the significands
F64DivRound(s, qr, e) == F64Round(s, qr[1], e, qr[2] # <<>>)

\* a / b, for b other than 0
F64Div(a, b) ==
  IF a.m = <<>> THEN F64Zero
  ELSE LET n == Max(0, Precision + 3 + BigBitLen(b.m) - BigBitLen(a.m))
       IN F64DivRound(a.s * b.s, BigDivMod(BigShl(a.m, n), b.m), a.e - b.e - n)

\* -1, 0, 1 as a < b, a = b, a > b
F64Cmp(a, b) ==
  IF a.m = <<>> THEN (IF b.m = <<>> THEN 0 ELSE -b.s)
  ELSE IF b.m = <<>> \/ a.s # b.s THEN a.s
  ELSE LET e == Min(a.e, b.e)
       IN a.s * BigCmp(BigShl(a.m, a.e - e), BigShl(b.m, b.e - e))

F64Less(a, b) == F64Cmp(a, b) = -1

\* a decimal literal n / d (0.299 is 299 / 1000)
F64Literal(n, d) == F64Div(F64FromInt(n), F64FromInt(d))

\* q or q + 1 as the part rounded off compares with one half (c)
F64NearestEven(q, c) == IF c = 1 \/ (c = 0 /\ q % 2 = 1) THEN q + 1 ELSE q

\* the integer nearest to a >= 0, the even one at a tie
F64RoundToNat(a) ==
  IF a.e >= 0 THEN BigToNat(BigShl(a.m, a.e))
  ELSE F64NearestEven(BigToNat(BigShr(a.m, -a.e)),
                      BigCmp(BigLow(a.m, -a.e), BigShl(<<1>>, -a.e - 1)))

(***************************************************************************)
(* isLowLight (imageUtils).  A size x size window is drawn from the centre *)
(* of the video into a fresh canvas and its mean luminance is compared     *)
(* with 80.  A fresh canvas is transparent black, and drawImage draws      *)
(* nothing from a video that has no frame yet, nor outside the source.     *)
(* The luminance, the total and the mean are binary64 numbers.             *)
(***************************************************************************)
size == 50
LowLightThreshold == 80

\* the literals 0.299, 0.587 and 0.114
LumaR == F64Literal(299, 1000)
LumaG == F64Literal(587, 1000)
LumaB == F64Literal(114, 1000)

\* 0.299 * r + 0.587 * g + 0.114 * b
Luminance(c) ==
  F64Add(F64Add(F64Mul(LumaR, F64FromInt(c[1])), F64Mul(LumaG, F64FromInt(c[2]))),
         F64Mul(LumaB, F64FromInt(c[3])))

\* the colour of the sample canvas at (i, j), both 0-based
SamplePixel(v, i, j) ==
  LET sx == (v.w - size) \div 2
      sy == (v.h - size) \div 2
  IN IF v.w > 0 /\ v.h > 0 /\ sx + i \in 0..(v.w - 1) /\ sy + j \in 0..(v.h - 1)
     THEN FramePixel(v, sx + i) ELSE Transparent

\* the loop over data for the pixels lo..hi (0-based, row by row), entered
\* with totalBrightness = acc; the first half of the pixels is added before
\* the second half is entered.  lum holds 0.299 * r + 0.587 * g + 0.114 * b
\* of the colours a sample can hold, each computed once
RECURSIVE sumBrightness(_, _, _, _, _)
sumBrightness(v, lum, acc, lo, hi) ==
  IF lo = hi
  THEN LET c == SamplePixel(v, lo % size, lo \div size)
       IN F64Add(acc, IF c = v.cL THEN lum[1] ELSE IF c = v.cR THEN lum[2] ELSE lum[3])
  ELSE LET mid == (lo + hi) \div 2
           first == sumBrightness(v, lum, acc, lo, mid)
       IN IF first.m = <<>> THEN sumBrightness(v, lum, F64Zero, mid + 1, hi)
          ELSE sumBrightness(v, lum, first, mid + 1, hi)

totalBrightness(v) ==
  LET lum == <<Luminance(v.cL), Luminance(v.cR), Luminance(Transparent)>>
  IN sumBrightness(v, lum, F64Zero, 0, size * size - 1)

\* avgBrightness = totalBrightness / (data.length / 4)
avgBrightness(v) == F64Div(totalBrightness(v), F64FromInt(size * size))

\* return avgBrightness < 80
isLowLight(v) == F64Less(avgBrightness(v), F64FromInt(LowLightThreshold))

\* isLowLight of the frames the video element shows, evaluated once
FrameIsLowLight == [v \in Frames |-> isLowLight(v)]

\* isLowLight(videoRef.current)
sampleLowLight(v) == FrameIsLowLight[v]

(***************************************************************************)
(* The frame grab.  The context transform maps user column c (the unit     *)
(* interval from c) to a device column: x' = a * x + e.  drawImage puts    *)
(* source column c of the video on the device column it maps to; device    *)
(* columns nothing maps to stay transparent.                               *)
(***************************************************************************)
\* mutant: the mirror without translate(canvas.width, 0)
captureTransformNoTranslate(facing, w) ==
  IF facing = "user" THEN [a |-> -1, e |-> 0] ELSE [a |-> 1, e |-> 0]

\* if (facingMode === 'user') { translate(canvas.width, 0); scale(-1, 1) }
captureTransform(facing, w) ==
  IF facing = "user" THEN [a |-> -1, e |-> w] ELSE [a |-> 1, e |-> 0]

DeviceColumn(t, c) == IF t.a = 1 THEN t.e + c ELSE t.e - (c + 1)

drawImage(v, t) ==
  [d \in 1..v.w |->
     LET from == {c \in 0..(v.w - 1) : DeviceColumn(t, c) = d - 1}
     IN IF from = {} THEN Transparent ELSE FramePixel(v, CHOOSE c \in from : TRUE)]

(***************************************************************************)
(* captureStrategy.  A capture is a record: where it waits (pc), what it   *)
(* closed over (stream, torchSupported, facingMode), lowLight, the events  *)
(* so far (log), what its outer catch caught (exc), whether a device call  *)
(* of it failed (rejected: a request was rejected, or the call of a        *)
(* missing applyConstraints threw), the frame it grabbed                   *)
(* (raw), the frame isLowLight sampled (sampled) and the size of the       *)
(* canvas as encoded (url), and the tracks its torch requests went to      *)
(* (onTrack, offTrack; 0 when none was sent).  The canvas records the      *)
(* capture that drew on it last (by).  The record of a capture that has    *)
(* ended is cleared when the next capture starts.                          *)
(***************************************************************************)
Log(rec, e) == [rec EXCEPT !.log = Append(@, e)]

NoCapture == [pc |-> "archived", lowLight |-> FALSE, stream |-> 0,
              torchSupported |-> FALSE, facingMode |-> "environment",
              log |-> <<>>, exc |-> "none", rejected |-> FALSE, grabbed |-> FALSE,
              sampled |-> NotReady, raw |-> NotReady, url |-> [w |-> 0, h |-> 0],
              onTrack |-> 0, offTrack |-> 0]

Archive(cs) == [k \in 1..Len(cs) |-> IF cs[k].pc = "done" THEN NoCapture ELSE cs[k]]

PutCap(i, rec) ==
  caps' = IF i > Len(caps) THEN Append(Archive(caps), rec)
          ELSE [caps EXCEPT ![i] = rec]

\* setTorch gets past its guard and track.applyConstraints is there to call
torchRequestSent(rec) ==
  /\ rec.stream # 0 /\ rec.torchSupported
  /\ Profile(streams[rec.stream].prof).applyConstraints

\* setTorch gets past its guard and track.applyConstraints is missing: the
\* call throws inside the try of setTorch, whose catch logs the TypeError
torchCallThrows(rec) ==
  /\ rec.stream # 0 /\ rec.torchSupported
  /\ ~Profile(streams[rec.stream].prof).applyConstraints

\* mutant: the torch only follows torchSupported
torchWantedAnyLight(rec) == rec.torchSupported

\* if (lowLight && torchSupported), before the grab and after it
torchWanted(rec) == rec.lowLight /\ rec.torchSupported

\* mutant: setTorch(false) goes to the track of the stream of the latest render
torchOffTrackCurrent(rec) == stream

\* the track setTorch(false) addresses: stream.getVideoTracks()[0] of the
\* stream the capture closed over
torchOffTrack(rec) == rec.stream

\* the teardown of the session the capture runs in has happened
TornDown(rec) ==
  ~mounted \/ (rec.stream # 0 /\ ~streams[rec.stream].live)

\* catch (e) { console.error("Capture failed:", e) }
captureFailed(i, rec, what) ==
  PutCap(i, [Log(rec, "caught") EXCEPT !.pc = "done", !.exc = what])

\* finally { setProcessing(false) }: run when the invocation has ended; proc
\* is processing as the invocation's earlier steps of this run left it
finally(i, proc) ==
  processing' = IF caps'[i].pc = "done" THEN Set(FALSE, proc) ELSE proc

\* canvas.toDataURL, then the call of applyFilters, which is awaited
encode(i, rec, cv) ==
  PutCap(i, [Log(rec, "encoded") EXCEPT !.pc = "filters", !.url = [w |-> cv.w, h |-> cv.h]])

\* mutant: the raw frame is shown as the captured image as soon as it is grabbed
grabFrameStoresRaw(i, rec, ctxOk) ==
  /\ capturedImage' = IF mounted /\ ctxOk THEN Set(i, capturedImage) ELSE capturedImage
  /\ IF ~mounted
     THEN \* videoRef.current is null: video.videoWidth throws
          /\ canvas' = canvas
          /\ captureFailed(i, rec, "grab")
     ELSE IF ~ctxOk
     THEN \* getContext gives null: context.imageSmoothingEnabled throws
          /\ canvas' = [w |-> video.w, h |-> video.h,
                        px |-> [d \in 1..video.w |-> Transparent], by |-> i]
          /\ captureFailed(i, rec, "grab")
     ELSE LET cv == [w |-> video.w, h |-> video.h, by |-> i,
                     px |-> drawImage(video, captureTransform(rec.facingMode, video.w))]
              got == [Log(rec, "grab") EXCEPT !.raw = video, !.grabbed = TRUE]
          IN /\ canvas' = cv
             /\ IF torchWanted(got) /\ torchRequestSent(got)
                THEN PutCap(i, [Log(got, "torchOffReq") EXCEPT !.pc = "torchOff",
                                  !.offTrack = torchOffTrack(got)])
                ELSE encode(i, [got EXCEPT !.rejected =
                                      @ \/ (torchWanted(got) /\ torchCallThrows(got))],
                            cv)

\* from the end of the focus wait to the await of setTorch(false) or of
\* applyFilters (the shutter flash, isFlashing, is display only: not modelled)
grabFrame(i, rec, ctxOk) ==
  /\ capturedImage' = capturedImage
  /\ IF ~mounted
     THEN \* videoRef.current is null: video.videoWidth throws
          /\ canvas' = canvas
          /\ captureFailed(i, rec, "grab")
     ELSE IF ~ctxOk
     THEN \* getContext gives null: context.imageSmoothingEnabled throws
          /\ canvas' = [w |-> video.w, h |-> video.h,
                        px |-> [d \in 1..video.w |-> Transparent], by |-> i]
          /\ captureFailed(i, rec, "grab")
     ELSE LET cv == [w |-> video.w, h |-> video.h, by |-> i,
                     px |-> drawImage(video, captureTransform(rec.facingMode, video.w))]
              got == [Log(rec, "grab") EXCEPT !.raw = video, !.grabbed = TRUE]
          IN /\ canvas' = cv
             /\ IF torchWanted(got) /\ torchRequestSent(got)
                THEN PutCap(i, [Log(got, "torchOffReq") EXCEPT !.pc = "torchOff",
                                  !.offTrack = torchOffTrack(got)])
                ELSE encode(i, [got EXCEPT !.rejected =
                                      @ \/ (torchWanted(got) /\ torchCallThrows(got))],
                            cv)

\* mutant: no focus settle delay, the frame is grabbed at once
focusStageSkipped(i, rec, ctxOk) == grabFrame(i, rec, ctxOk)

\* what follows the illumination stage, up to the next pending await: the
\* focus settle delay, or in lock the focus lock (lines 266-296 of part_000)
focusStage(i, rec, ctxOk) ==
  IF variant # "lock"
  THEN /\ PutCap(i, [rec EXCEPT !.pc = "focus"])
       /\ UNCHANGED <<capturedImage, canvas>>
  ELSE IF rec.stream = 0
  THEN grabFrame(i, rec, ctxOk)
  ELSE LET c == getCapabilities(streams[rec.stream].prof)
           lockFocusConstraints ==
             (IF "single-shot" \in c.focusMode THEN <<"single-shot">>
              ELSE IF "manual" \in c.focusMode THEN <<"manual">> ELSE <<>>)
             \o (IF c.focusDistance THEN <<"focusDistance">> ELSE <<>>)
       IN IF Len(lockFocusConstraints) = 0
          THEN /\ PutCap(i, [rec EXCEPT !.pc = "lockWait"])
               /\ UNCHANGED <<capturedImage, canvas>>
          ELSE IF Profile(streams[rec.stream].prof).applyConstraints
          THEN /\ PutCap(i, [Log(rec, "lockReq") EXCEPT !.pc = "lockApply"])
               /\ UNCHANGED <<capturedImage, canvas>>
          ELSE grabFrame(i, [Log(rec, "lockRej") EXCEPT !.rejected = TRUE], ctxOk)

\* mutant: setTorch(true) without await, the settle delay starts at once
enableTorchNotAwaited(i, rec) ==
  IF torchRequestSent(rec)
  THEN PutCap(i, [Log(rec, "torchOnReq") EXCEPT !.pc = "illum", !.onTrack = rec.stream])
  ELSE PutCap(i, [rec EXCEPT !.pc = "illum", !.rejected = @ \/ torchCallThrows(rec)])

\* await setTorch(true): the request is sent and awaited, or setTorch returns
\* without one (its guard fails, or the call of a missing applyConstraints
\* throws and is caught); then the illumination settle delay is awaited
enableTorch(i, rec) ==
  IF torchRequestSent(rec)
  THEN PutCap(i, [Log(rec, "torchOnReq") EXCEPT !.pc = "torchOn", !.onTrack = rec.stream])
  ELSE PutCap(i, [rec EXCEPT !.pc = "illum", !.rejected = @ \/ torchCallThrows(rec)])

\* mutant: the capture button without disabled={processing}
captureButtonNeverDisabled == mounted

\* the capture button: onClick={captureStrategy} disabled={processing}
captureButton == mounted /\ ~processing

\* captureStrategy from the click to its first pending await
captureStrategy(ctxOk) ==
  LET i == Len(caps) + 1
      rec == [pc |-> "start", lowLight |-> sampleLowLight(video), stream |-> stream,
              torchSupported |-> torchSupported, facingMode |-> facingMode,
              log |-> <<>>, exc |-> "none", rejected |-> FALSE, grabbed |-> FALSE,
              sampled |-> video, raw |-> NotReady, url |-> [w |-> 0, h |-> 0],
              onTrack |-> 0, offTrack |-> 0]
  IN
  /\ captureButton
  /\ i <= MaxCaptures /\ Len(starts) + Len(caps) + Len(ui) < MaxCalls
  /\ mounted' = mounted
  /\ IF ~mounted
     THEN \* if (!videoRef.current || !canvasRef.current) return
          UNCHANGED captureVars
     ELSE IF torchWanted(rec)
     THEN /\ enableTorch(i, rec)
          /\ finally(i, TRUE)
          /\ UNCHANGED <<capturedImage, canvas>>
     ELSE /\ focusStage(i, rec, ctxOk)
          /\ finally(i, TRUE)
  /\ UNCHANGED <<variant, rig, ui, lab, srcObject, streams, starts, video>>
  /\ UNCHANGED sessionVars

\* mutant: setTorch without its try/catch, a rejection reaches the outer catch
torchOnSettledUncaught(i, ok) ==
  LET rec == caps[i]
      sid == rec.stream
      took == ok /\ streams[sid].live /\ Profile(streams[sid].prof).torch
  IN
  /\ rec.pc = "torchOn"
  /\ mounted' = mounted
  /\ streams' = IF took THEN [streams EXCEPT ![sid].torch = TRUE] ELSE streams
  /\ IF ok
     THEN PutCap(i, [Log(rec, "torchOnOk") EXCEPT !.pc = "illum"])
     ELSE captureFailed(i, [Log(rec, "torchOnRej") EXCEPT !.rejected = TRUE], "device")
  /\ finally(i, processing)
  /\ UNCHANGED <<variant, rig, ui, lab, srcObject, starts, video>>
  /\ UNCHANGED sessionVars
  /\ UNCHANGED <<capturedImage, canvas>>

\* the applyConstraints({torch: true}) of setTorch settles; a rejection is
\* caught inside setTorch; the illumination settle delay starts
torchOnSettled(i, ok) ==
  LET rec == caps[i]
      sid == rec.stream
      took == ok /\ streams[sid].live /\ Profile(streams[sid].prof).torch
  IN
  /\ rec.pc = "torchOn"
  /\ mounted' = mounted
  /\ streams' = IF took THEN [streams EXCEPT ![sid].torch = TRUE] ELSE streams
  /\ PutCap(i, [Log(rec, IF ok THEN "torchOnOk" ELSE "torchOnRej")
                  EXCEPT !.pc = "illum", !.rejected = @ \/ ~ok])
  /\ UNCHANGED <<variant, rig, ui, lab, srcObject, starts, video>>
  /\ UNCHANGED sessionVars
  /\ UNCHANGED <<processing, capturedImage, canvas>>

\* the illumination settle delay (300 ms) has elapsed
illumTimer(i, ctxOk) ==
  LET rec == caps[i] IN
  /\ rec.pc = "illum"
  /\ mounted' = mounted
  /\ focusStage(i, Log(rec, "illumSettled"), ctxOk)
  /\ finally(i, processing)
  /\ UNCHANGED <<variant, rig, ui, lab, srcObject, streams, starts, video>>
  /\ UNCHANGED sessionVars

\* the applyConstraints of the focus lock settles (lock); a rejection is
\* caught, and skips the 100 ms wait
lockSettled(i, ok, ctxOk) ==
  LET rec == caps[i] IN
  /\ rec.pc = "lockApply"
  /\ mounted' = mounted
  /\ IF ok
     THEN /\ PutCap(i, [Log(rec, "lockOk") EXCEPT !.pc = "lockWait"])
          /\ UNCHANGED <<capturedImage, canvas>>
     ELSE grabFrame(i, [Log(rec, "lockRej") EXCEPT !.rejected = TRUE], ctxOk)
  /\ finally(i, processing)
  /\ UNCHANGED <<variant, rig, ui, lab, srcObject, streams, starts, video>>
  /\ UNCHANGED sessionVars

\* the focus settle delay has elapsed (300 ms, 400 ms in zoom and legacy,
\* 100 ms after the focus lock): the frame is grabbed
focusTimer(i, ctxOk) ==
  LET rec == caps[i] IN
  /\ rec.pc \in {"focus", "lockWait"}
  /\ mounted' = mounted
  /\ grabFrame(i, Log(rec, "focusSettled"), ctxOk)
  /\ finally(i, processing)
  /\ UNCHANGED <<variant, rig, ui, lab, srcObject, streams, starts, video>>
  /\ UNCHANGED sessionVars

\* the applyConstraints({torch: false}) of setTorch settles; the canvas is
\* encoded and applyFilters is called
torchOffSettled(i, ok) ==
  LET rec == caps[i]
      sid == rec.offTrack
      took == ok /\ streams[sid].live /\ Profile(streams[sid].prof).torch
  IN
  /\ rec.pc = "torchOff"
  /\ mounted' = mounted
  /\ streams' = IF took THEN [streams EXCEPT ![sid].torch = FALSE] ELSE streams
  /\ encode(i, [Log(rec, IF ok THEN "torchOffOk" ELSE "torchOffRej")
                  EXCEPT !.rejected = @ \/ ~ok], canvas)
  /\ UNCHANGED <<variant, rig, ui, lab, srcObject, starts, video>>
  /\ UNCHANGED sessionVars
  /\ UNCHANGED <<processing, capturedImage, canvas>>

\* applyFilters resolves only from img.onload: the image of an empty canvas
\* ("data:,") does not load, and no onerror is set
imageLoads(url) == url.w > 0 /\ url.h > 0

\* applyFilters has resolved: setCapturedImage, then the finally
filtersResolved(i) ==
  LET rec == caps[i] IN
  /\ rec.pc = "filters"
  /\ imageLoads(rec.url)
  /\ mounted' = mounted
  /\ capturedImage' = Set(i, capturedImage)
  /\ PutCap(i, [Log(rec, "stored") EXCEPT !.pc = "done"])
  /\ finally(i, processing)
  /\ UNCHANGED <<variant, rig, ui, lab, srcObject, streams, starts, video>>
  /\ UNCHANGED sessionVars
  /\ canvas' = canvas

\* the live track of the stream attached to the video element delivers a
\* frame, which replaces what the element showed
VideoFrame(f) ==
  /\ mounted /\ srcObject # 0 /\ streams[srcObject].live
  /\ f # video
  /\ video' = f
  /\ UNCHANGED <<variant, rig, ui, lab, mounted, srcObject, streams, starts>>
  /\ UNCHANGED sessionVars
  /\ UNCHANGED captureVars

\* the video element has noticed that the track it plays was stopped: it
\* shows black from now on
VideoEnded ==
  /\ mounted /\ srcObject # 0 /\ ~streams[srcObject].live
  /\ video # Ended(video)
  /\ video' = Ended(video)
  /\ UNCHANGED <<variant, rig, ui, lab, mounted, srcObject, streams, starts>>
  /\ UNCHANGED sessionVars
  /\ UNCHANGED captureVars

(***************************************************************************)
(* The zoom slider and tap to focus (main, lock and zoom; legacy has       *)
(* neither, and only zoom renders the slider, while showZoom).  An         *)
(* invocation is a record: what it closed over (stream, showZoom, zoom,    *)
(* the maximum of zoomRange), where it waits (pc), the value it is         *)
(* applying (val), whether a request of it was rejected (a call of a       *)
(* missing applyConstraints throws inside the same try), and whether an    *)
(* exception left the handler (escaped).  devZoom is the zoom the track    *)
(* had when the handler was called.                                        *)
(***************************************************************************)
NewUi(kind) == [kind |-> kind, pc |-> "done", stream |-> stream,
                showZoom |-> showZoom, zoom |-> zoom, zmax |-> zoomRange[2],
                val |-> 0, rejected |-> FALSE, escaped |-> FALSE,
                devZoom |-> IF stream = 0 THEN 0 ELSE streams[stream].zoom]

\* min={zoomRange.min} max={Math.min(zoomRange.max, 5)}: the ends of the slider
SliderValues == {zoomRange[1], Min(zoomRange[2], 50)}

\* the track takes a zoom the device accepted
TrackZoom(sid, ok, z) ==
  IF ok /\ streams[sid].live /\ Profile(streams[sid].prof).zoom # <<>>
  THEN [streams EXCEPT ![sid].zoom = z] ELSE streams

\* handleZoomChange, up to the await of applyConstraints
handleZoomChange(newZoom) ==
  LET u == NewUi("zoom") IN
  /\ mounted /\ variant = "zoom" /\ showZoom
  /\ Len(ui) < MaxUi /\ Len(starts) + Len(caps) + Len(ui) < MaxCalls
  /\ newZoom \in SliderValues
  /\ zoom' = newZoom
  /\ ui' = Append(ui,
       IF stream = 0 THEN u
       ELSE IF ~Profile(streams[stream].prof).applyConstraints
            THEN [u EXCEPT !.rejected = TRUE]
            ELSE [u EXCEPT !.pc = "apply", !.val = newZoom])
  /\ UNCHANGED <<variant, rig, lab, mounted, facingMode, stream, streamRef,
                 cbStream, srcObject, error, loading, torchSupported, zoomRange,
                 showZoom, streams, starts, video>>
  /\ UNCHANGED captureVars

\* mutant: handleZoomChange without its try/catch
zoomChangeSettledUncaught(j, ok) ==
  LET u == ui[j] IN
  /\ u.kind = "zoom" /\ u.pc = "apply"
  /\ streams' = TrackZoom(u.stream, ok, u.val)
  /\ ui' = [ui EXCEPT ![j].pc = "done", ![j].rejected = ~ok, ![j].escaped = ~ok]
  /\ UNCHANGED <<variant, rig, lab, mounted, srcObject, starts, video>>
  /\ UNCHANGED sessionVars
  /\ UNCHANGED captureVars

\* the applyConstraints of handleZoomChange settles; a rejection is logged
zoomChangeSettled(j, ok) ==
  LET u == ui[j] IN
  /\ u.kind = "zoom" /\ u.pc = "apply"
  /\ streams' = TrackZoom(u.stream, ok, u.val)
  /\ ui' = [ui EXCEPT ![j].pc = "done", ![j].rejected = ~ok]
  /\ UNCHANGED <<variant, rig, lab, mounted, srcObject, starts, video>>
  /\ UNCHANGED sessionVars
  /\ UNCHANGED captureVars

\* handleTapToFocus, up to its first await: macro focus when the track
\* offers it, else the zoom wiggle when the slider is shown, else a plain
\* re-apply of continuous focus
handleTapToFocus ==
  LET u == NewUi("tap")
      c == getCapabilities(streams[stream].prof)
  IN
  /\ mounted /\ variant # "legacy"
  /\ Len(ui) < MaxUi /\ Len(starts) + Len(caps) + Len(ui) < MaxCalls
  /\ ui' = Append(ui,
       IF stream = 0 THEN u
       ELSE IF ~Profile(streams[stream].prof).applyConstraints
            THEN [u EXCEPT !.rejected = TRUE]
            ELSE IF "macro" \in c.focusMode THEN [u EXCEPT !.pc = "macro"]
            ELSE IF showZoom
                 THEN [u EXCEPT !.pc = "wiggle", !.val = Min(zoom + 1, zoomRange[2])]
                 ELSE [u EXCEPT !.pc = "refocus"])
  /\ UNCHANGED <<variant, rig, lab, mounted, srcObject, streams, starts, video>>
  /\ UNCHANGED sessionVars
  /\ UNCHANGED captureVars

\* an applyConstraints of handleTapToFocus settles; a rejection ends the
\* handler in its catch
tapSettled(j, ok) ==
  LET u == ui[j] IN
  /\ u.kind = "tap" /\ u.pc \in {"macro", "wiggle", "refocus", "restore"}
  /\ streams' = CASE u.pc = "wiggle"  -> TrackZoom(u.stream, ok, u.val)
                  [] u.pc = "restore" -> TrackZoom(u.stream, ok, u.zoom)
                  [] OTHER -> streams
  /\ ui' = IF ~ok THEN [ui EXCEPT ![j].pc = "done", ![j].rejected = TRUE]
           ELSE [ui EXCEPT ![j].pc = CASE u.pc = "macro"  -> "macroWait"
                                        [] u.pc = "wiggle" -> "wiggleWait"
                                        [] OTHER -> "done"]
  /\ UNCHANGED <<variant, rig, lab, mounted, srcObject, starts, video>>
  /\ UNCHANGED sessionVars
  /\ UNCHANGED captureVars

\* the timer between the two requests of handleTapToFocus fires and the
\* second request is sent
tapTimer(j) ==
  LET u == ui[j] IN
  /\ u.kind = "tap" /\ u.pc \in {"macroWait", "wiggleWait"}
  /\ ui' = [ui EXCEPT ![j].pc = IF u.pc = "macroWait" THEN "refocus" ELSE "restore"]
  /\ UNCHANGED <<variant, rig, lab, mounted, srcObject, streams, starts, video>>
  /\ UNCHANGED sessionVars
  /\ UNCHANGED captureVars

\* every handler of the component and every continuation of one
Next ==
  \/ Mount
  \/ switchCamera
  \/ Retry
  \/ Unmount
  \/ \E i \in 1..Len(starts), p \in ProfileNames : getUserMediaResolve(i, p)
  \/ \E i \in 1..Len(starts) : getUserMediaReject(i)
  \/ \E i \in 1..Len(starts), ok \in BOOLEAN : applySettled(i, ok)
  \/ \E f \in ReadyFrames : VideoFrame(f)
  \/ VideoEnded
  \/ \E ctxOk \in BOOLEAN : captureStrategy(ctxOk)
  \/ \E i \in 1..Len(caps), ok \in BOOLEAN : torchOnSettled(i, ok)
  \/ \E i \in 1..Len(caps), ctxOk \in BOOLEAN : illumTimer(i, ctxOk)
  \/ \E i \in 1..Len(caps), ok \in BOOLEAN, ctxOk \in BOOLEAN : lockSettled(i, ok, ctxOk)
  \/ \E i \in 1..Len(caps), ctxOk \in BOOLEAN : focusTimer(i, ctxOk)
  \/ \E i \in 1..Len(caps), ok \in BOOLEAN : torchOffSettled(i, ok)
  \/ \E i \in 1..Len(caps) : filtersResolved(i)
  \/ \E z \in SliderValues : handleZoomChange(z)
  \/ \E j \in 1..Len(ui), ok \in BOOLEAN : zoomChangeSettled(j, ok)
  \/ handleTapToFocus
  \/ \E j \in 1..Len(ui), ok \in BOOLEAN : tapSettled(j, ok)
  \/ \E j \in 1..Len(ui) : tapTimer(j)

Spec == Init /\ [][Next]_vars

\* the same component on any device
SessionInit == InitComponent /\ rig \in Rigs /\ lab = NoLab

SessionSpec == SessionInit /\ [][Next]_vars

(***************************************************************************)
(* applyFilters (imageUtils): the image is drawn on a canvas of the call,  *)
(* the pixel loop runs between getImageData and putImageData, the sharpen  *)
(* stage follows, and the canvas is encoded as a JPEG data URL.  A pixel   *)
(* is <<r, g, b, a>>.  The loop computes in binary64 numbers and stores    *)
(* into a Uint8ClampedArray, which takes the nearest integer (ties to      *)
(* even).  The options hold contrast and sharpen in tenths (1.0 is 10)     *)
(* and an integer brightness.                                              *)
(***************************************************************************)
\* c255: contrast * 255
factorOf(c255) ==
  F64Div(F64Mul(F64FromInt(259), F64Add(c255, F64FromInt(255))),
         F64Mul(F64FromInt(255), F64Sub(F64FromInt(259), c255)))

\* const factor = (259 * (contrast * 255 + 255)) / (255 * (259 - contrast * 255))
\* (contrast * 255 is never 259 for a contrast in tenths)
factor(contrast) == factorOf(F64Mul(F64Literal(contrast, 10), F64FromInt(255)))

\* r = g = b = gray
Gray(gray) == <<gray, gray, gray>>

\* mutant: the mean of the channels instead of the luminance
grayscaleStageMean(px, grayscale) ==
  IF grayscale
  THEN Gray(F64Div(F64FromInt(px[1] + px[2] + px[3]), F64FromInt(3)))
  ELSE <<F64FromInt(px[1]), F64FromInt(px[2]), F64FromInt(px[3])>>

\* mutant: the luminance without its blue term
grayscaleStageNoBlue(px, grayscale) ==
  IF grayscale
  THEN Gray(F64Add(F64Mul(LumaR, F64FromInt(px[1])), F64Mul(LumaG, F64FromInt(px[2]))))
  ELSE <<F64FromInt(px[1]), F64FromInt(px[2]), F64FromInt(px[3])>>

\* if (grayscale) { gray = 0.299 * r + 0.587 * g + 0.114 * b; r = g = b = gray }
grayscaleStage(px, grayscale) ==
  IF grayscale THEN Gray(Luminance(px))
  ELSE <<F64FromInt(px[1]), F64FromInt(px[2]), F64FromInt(px[3])>>

\* if (contrast !== 1.0) v = factor * (v - 128) + 128, f the factor
contrastStage(v, contrast, f) ==
  IF contrast # 10
  THEN F64Add(F64Mul(f, F64Sub(v, F64FromInt(128))), F64FromInt(128))
  ELSE v

\* function clamp(value) { return Math.max(0, Math.min(255, value)) }
clamp(v) ==
  IF F64Less(v, F64Zero) THEN F64Zero
  ELSE IF F64Less(F64FromInt(255), v) THEN F64FromInt(255) ELSE v

\* mutant: the contrast result is clamped before the brightness is added
brightnessStageClamped(v, brightness) ==
  IF brightness # 0 THEN F64Add(clamp(v), F64FromInt(brightness)) ELSE v

\* if (brightness !== 0) v += brightness
brightnessStage(v, brightness) ==
  IF brightness # 0 THEN F64Add(v, F64FromInt(brightness)) ELSE v

\* data[i] = value: a Uint8ClampedArray element takes the nearest integer in
\* 0..255, a tie going to the even one
ToUint8Clamp(v) == F64RoundToNat(clamp(v))

\* a channel v of the loop through the contrast and brightness stages and
\* the store, f the factor computed before the loop
storeChannel(v, options, f) ==
  ToUint8Clamp(clamp(brightnessStage(contrastStage(v, options.contrast, f),
                                     options.brightness)))

\* data[i] = clamp(r); data[i + 1] = clamp(g); data[i + 2] = clamp(b)
storePixel(rgb, px, options, f) ==
  <<storeChannel(rgb[1], options, f), storeChannel(rgb[2], options, f),
    storeChannel(rgb[3], options, f), px[4]>>

\* one round of the pixel loop
filterPixel(px, options, f) ==
  storePixel(grayscaleStage(px, options.grayscale), px, options, f)

\* for (let i = 0; i < data.length; i += 4) { ... }
pixelLoop(data, options, f) ==
  [k \in 1..Len(data) |-> filterPixel(data[k], options, f)]

\* if (sharpen > 0) { }: the body is empty
sharpenStage(data, sharpen) == IF sharpen > 0 THEN data ELSE data

\* the pixel data applyFilters puts back on its canvas (putImageData): the
\* loop runs when some option asks for it
filteredData(data, options) ==
  sharpenStage(IF options.grayscale \/ options.contrast # 10 \/ options.brightness # 0
               THEN pixelLoop(data, options, factor(options.contrast))
               ELSE data,
               options.sharpen)

\* a canvas pixel after a pixel src is drawn on a pixel dst (the default
\* composite operation, source-over); alpha is 0..255
sourceOver(src, dst) ==
  LET ao == src[4] + (dst[4] * (255 - src[4])) \div 255
      co(ch) == (src[ch] * src[4] * 255 + dst[ch] * dst[4] * (255 - src[4]))
                  \div (ao * 255)
  IN IF ao = 0 THEN <<0, 0, 0, 0>> ELSE <<co(1), co(2), co(3), ao>>

\* document.createElement('canvas') sized as the image: a canvas of the
\* call's own, transparent black
createCanvas(n) == [k \in 1..n |-> <<0, 0, 0, 0>>]

\* ctx.drawImage(img, 0, 0); ctx.getImageData(0, 0, width, height).data
drawnImage(img) ==
  [k \in 1..Len(img) |-> sourceOver(img[k], createCanvas(Len(img))[k])]

(***************************************************************************)
(* canvas.toDataURL('image/jpeg', 0.98) and the loading of such a data URL *)
(* into an Image, as the browser's JPEG library does them (libjpeg: colour  *)
(* conversion, 2 x 2 chroma subsampling, the integer DCT of 8 x 8 blocks,   *)
(* quantization at quality 98, and back).  A data URL is represented by    *)
(* the quantized coefficients of its blocks.  The canvas is 3 x 3, which   *)
(* is one block of each component, the samples beyond the image repeating  *)
(* its last column and row.                                                *)
(***************************************************************************)
\* x / 2^n rounded (an arithmetic shift of x + 2^(n-1))
Descale(x, n) == (x + 2^(n - 1)) \div 2^n

\* the quantization tables of the JPEG standard, row by row
StdLuminance ==
  <<16, 11, 10, 16, 24, 40, 51, 61,  12, 12, 14, 19, 26, 58, 60, 55,
    14, 13, 16, 24, 40, 57, 69, 56,  14, 17, 22, 29, 51, 87, 80, 62,
    18, 22, 37, 56, 68, 109, 103, 77,  24, 35, 55, 64, 81, 104, 113, 92,
    49, 64, 78, 87, 103, 121, 120, 101,  72, 92, 95, 98, 112, 100, 103, 99>>
StdChrominance ==
  <<17, 18, 24, 47, 99, 99, 99, 99,  18, 21, 26, 66, 99, 99, 99, 99,
    24, 26, 56, 99, 99, 99, 99, 99,  47, 66, 99, 99, 99, 99, 99, 99,
    99, 99, 99, 99, 99, 99, 99, 99,  99, 99, 99, 99, 99, 99, 99, 99,
    99, 99, 99, 99, 99, 99, 99, 99,  99, 99, 99, 99, 99, 99, 99, 99>>

\* toDataURL('image/jpeg', 0.98): at quality 98 an entry of a standard table
\* is scaled by 200 - 2 * 98 percent, rounded, and is at least 1
quantTable(base) ==
  SubSeq([i \in 1..64 |-> Max(1, Min(255, (base[i] * (200 - 2 * 98) + 50) \div 100))],
         1, 64)

\* the canvas keeps its colours multiplied by alpha and a JPEG has no alpha:
\* channel c at alpha a is encoded as c * a / 255 rounded (the pixel on black)
premultiply(px) ==
  <<(2 * px[1] * px[4] + 255) \div 510, (2 * px[2] * px[4] + 255) \div 510,
    (2 * px[3] * px[4] + 255) \div 510>>

\* RGB to YCbCr in 16-bit fixed point
rgbToYcc(p) ==
  <<(19595 * p[1] + 38470 * p[2] + 7471 * p[3] + 32768) \div 65536,
    (-11059 * p[1] - 21709 * p[2] + 32768 * p[3] + 8421375) \div 65536,
    (32768 * p[1] - 27439 * p[2] - 5329 * p[3] + 8421375) \div 65536>>

\* the odd part of a pass of the transform, forward and inverse, t its four
\* odd terms
dctOdd(t) ==
  LET z5 == (t[1] + t[2] + t[3] + t[4]) * 9633
      z1 == (t[1] + t[4]) * (-7373)
      z2 == (t[2] + t[3]) * (-20995)
      z3 == (t[1] + t[3]) * (-16069) + z5
      z4 == (t[2] + t[4]) * (-3196) + z5
  IN <<t[1] * 2446 + z1 + z3, t[2] * 16819 + z2 + z4,
       t[3] * 25172 + z2 + z3, t[4] * 12299 + z1 + z4>>

\* one pass of the forward DCT over the eight values d (the first pass, over
\* a row, keeps two more bits)
fdctPass(d, first) ==
  LET t0 == d[1] + d[8]  t7 == d[1] - d[8]
      t1 == d[2] + d[7]  t6 == d[2] - d[7]
      t2 == d[3] + d[6]  t5 == d[3] - d[6]
      t3 == d[4] + d[5]  t4 == d[4] - d[5]
      t10 == t0 + t3  t13 == t0 - t3
      t11 == t1 + t2  t12 == t1 - t2
      z1 == (t12 + t13) * 4433
      n == IF first THEN 11 ELSE 15
      odd == dctOdd(<<t4, t5, t6, t7>>)
  IN <<IF first THEN (t10 + t11) * 4 ELSE Descale(t10 + t11, 2),
       Descale(odd[4], n),
       Descale(z1 + t13 * 6270, n),
       Descale(odd[3], n),
       IF first THEN (t10 - t11) * 4 ELSE Descale(t10 - t11, 2),
       Descale(odd[2], n),
       Descale(z1 - t12 * 15137, n),
       Descale(odd[1], n)>>

\* column c of eight rows
Col(rows, c) == <<rows[1][c], rows[2][c], rows[3][c], rows[4][c],
                  rows[5][c], rows[6][c], rows[7][c], rows[8][c]>>

\* the block, row by row, whose columns are cols
Transposed(cols) ==
  SubSeq([i \in 1..64 |-> cols[((i - 1) % 8) + 1][((i - 1) \div 8) + 1]], 1, 64)

\* the second pass, over the columns of the rows of the first
fdctColumns(rows) ==
  Transposed(SubSeq([c \in 1..8 |-> fdctPass(Col(rows, c), FALSE)], 1, 8))

\* the forward DCT of a block of samples (times 8): the samples less 128, a
\* pass over every row, then a pass over every column
fdct(samples) ==
  fdctColumns(SubSeq([r \in 1..8 |->
                        fdctPass([k \in 1..8 |-> samples[8 * (r - 1) + k] - 128], TRUE)],
                     1, 8))

\* a coefficient v divided by 8 times its table entry q, a half rounded away
\* from zero
quantize(v, q) ==
  IF v < 0 THEN -((4 * q - v) \div (8 * q)) ELSE (v + 4 * q) \div (8 * q)
quantizeBlock(co, table) == SubSeq([i \in 1..64 |-> quantize(co[i], table[i])], 1, 64)

\* the sample at row r, column c (from 0) of component ch of the 3 x 3
\* image, its last row and column repeated
Sample(ycc, ch, r, c) == ycc[3 * Min(r, 2) + Min(c, 2) + 1][ch]

\* a chroma sample is the mean of 2 x 2 pixels, the rounding alternating by
\* column
downsample(ycc, ch, r, c) ==
  (Sample(ycc, ch, 2 * r, 2 * c) + Sample(ycc, ch, 2 * r, 2 * c + 1)
     + Sample(ycc, ch, 2 * r + 1, 2 * c) + Sample(ycc, ch, 2 * r + 1, 2 * c + 1)
     + (IF c % 2 = 0 THEN 1 ELSE 2)) \div 4

\* the quantized coefficients of the three blocks: the luminance of every
\* pixel, and of each chroma component two rows of samples, the second
\* repeated
encodeYcc(ycc) ==
  [type |-> "image/jpeg",
   Y |-> quantizeBlock(
           fdct(SubSeq([i \in 1..64 |-> Sample(ycc, 1, (i - 1) \div 8, (i - 1) % 8)],
                       1, 64)),
           quantTable(StdLuminance)),
   Cb |-> quantizeBlock(
            fdct(SubSeq([i \in 1..64 |->
                           downsample(ycc, 2, Min((i - 1) \div 8, 1), (i - 1) % 8)],
                        1, 64)),
            quantTable(StdChrominance)),
   Cr |-> quantizeBlock(
            fdct(SubSeq([i \in 1..64 |->
                           downsample(ycc, 3, Min((i - 1) \div 8, 1), (i - 1) % 8)],
                        1, 64)),
            quantTable(StdChrominance))]

\* canvas.toDataURL('image/jpeg', 0.98) of a canvas holding the pixels data
toDataURL(data) ==
  encodeYcc(SubSeq([k \in 1..9 |-> rgbToYcc(premultiply(data[k]))], 1, 9))

\* one pass of the inverse DCT over the eight values d
idctPass(d, first) ==
  LET z1 == (d[3] + d[7]) * 4433
      t2 == z1 - d[7] * 15137
      t3 == z1 + d[3] * 6270
      t0 == (d[1] + d[5]) * 8192
      t1 == (d[1] - d[5]) * 8192
      t10 == t0 + t3  t13 == t0 - t3
      t11 == t1 + t2  t12 == t1 - t2
      odd == dctOdd(<<d[8], d[6], d[4], d[2]>>)
      n == IF first THEN 11 ELSE 18
  IN <<Descale(t10 + odd[4], n), Descale(t11 + odd[3], n),
       Descale(t12 + odd[2], n), Descale(t13 + odd[1], n),
       Descale(t13 - odd[1], n), Descale(t12 - odd[2], n),
       Descale(t11 - odd[3], n), Descale(t10 - odd[4], n)>>

\* a sample or channel limited to 0..255
rangeLimit(x) == Max(0, Min(255, x))

\* the second pass, over the rows of the columns of the first
idctRows(cols) == SubSeq([r \in 1..8 |-> idctPass(Col(cols, r), FALSE)], 1, 8)

\* the samples (less 128), as rows, of a block of quantized coefficients: a
\* coefficient times its table entry, a pass over every column, then a pass
\* over every row
idct(co, table) ==
  idctRows(SubSeq([c \in 1..8 |->
                     idctPass([r \in 1..8 |-> co[8 * (r - 1) + c] * table[8 * (r - 1) + c]],
                              TRUE)],
                  1, 8))

\* YCbCr to RGB in 16-bit fixed point; the pixel is opaque
yccToRgb(y, cb, cr) ==
  <<rangeLimit(y + (91881 * (cr - 128) + 32768) \div 65536),
    rangeLimit(y + (-22554 * (cb - 128) + 32768 - 46802 * (cr - 128)) \div 65536),
    rangeLimit(y + (116130 * (cb - 128) + 32768) \div 65536),
    255>>

\* the pixels of the 3 x 3 image: a chroma sample serves its 2 x 2 pixels
decodeSamples(Y, Cb, Cr) ==
  SubSeq([k \in 1..9 |->
            yccToRgb(rangeLimit(Y[(k - 1) \div 3 + 1][((k - 1) % 3) + 1] + 128),
                     rangeLimit(Cb[(k - 1) \div 6 + 1][((k - 1) % 3) \div 2 + 1] + 128),
                     rangeLimit(Cr[(k - 1) \div 6 + 1][((k - 1) % 3) \div 2 + 1] + 128))],
         1, 9)

\* img.src = url, up to img.onload: the pixels of the decoded image
loadImage(url) ==
  decodeSamples(idct(url.Y, quantTable(StdLuminance)),
                idct(url.Cb, quantTable(StdChrominance)),
                idct(url.Cr, quantTable(StdChrominance)))

\* applyFilters(imageDataUrl, options), img the pixels of the loaded image:
\* resolve(canvas.toDataURL('image/jpeg', 0.98))
applyFilters(img, options) == toDataURL(filteredData(drawnImage(img), options))

(***************************************************************************)
(* isLowLight and applyFilters called on their own.  lab is the call: the  *)
(* frame and result of isLowLight, or the image and options of             *)
(* applyFilters with what its successive calls did: call k read the pixel  *)
(* data bufs[2k-1] from its canvas, put back bufs[2k] and resolved with    *)
(* the data URL urls[k]; every call after the first is given the data URL  *)
(* of the call before it.  An image is 3 x 3, row by row: a background     *)
(* with a centre pixel.                                                    *)
(***************************************************************************)
MaxPasses == 2

LabGrays == {0, 79, 80, 81, 255}
LabFrames ==
  {[w |-> 50, h |-> 50, cL |-> <<g, g, g>>, cR |-> <<g, g, g>>] : g \in LabGrays}
    \cup {[w |-> 50, h |-> 50, cL |-> <<60, 60, 60>>, cR |-> <<100, 100, 100>>],
          [w |-> 50, h |-> 50, cL |-> <<59, 59, 59>>, cR |-> <<101, 101, 101>>],
          [w |-> 50, h |-> 50, cL |-> <<13, 105, 127>>, cR |-> <<13, 105, 127>>],
          [w |-> 50, h |-> 50, cL |-> <<255, 0, 0>>, cR |-> <<0, 0, 255>>]}

Palette == {<<0, 0, 0, 255>>, <<255, 255, 255, 255>>, <<128, 128, 128, 255>>,
            <<200, 100, 50, 255>>, <<0, 204, 68, 255>>, <<10, 20, 255, 128>>}
Centre == 5
LabImages ==
  {[k \in 1..9 |-> IF k = Centre THEN fg ELSE bg] :
     bg \in {<<0, 0, 0, 255>>, <<255, 255, 255, 255>>}, fg \in Palette}

\* every grayscale, contrast and brightness without sharpen, and the options
\* the captures pass
LabOptions ==
  [grayscale : BOOLEAN, contrast : {5, 10, 11, 12, 20}, brightness : {-30, 0, 20},
   sharpen : {0}]
    \cup {[grayscale |-> TRUE, contrast |-> 12, brightness |-> 20, sharpen |-> 7],
          [grayscale |-> TRUE, contrast |-> 11, brightness |-> 0, sharpen |-> 5]}

LabCalls ==
  {[op |-> "isLowLight", video |-> f, returned |-> FALSE, low |-> FALSE] :
     f \in LabFrames}
    \cup {[op |-> "applyFilters", options |-> o, img |-> img, bufs |-> <<>>,
           urls |-> <<>>] :
            o \in LabOptions, img \in LabImages}

componentVars == <<variant, mounted, facingMode, stream, streamRef, cbStream,
                   srcObject, error, loading, processing, torchSupported, zoom,
                   zoomRange, showZoom, capturedImage, streams, starts, caps,
                   video, canvas, rig, ui>>

\* isLowLight(video) returns
sampleBrightness ==
  /\ lab.op = "isLowLight" /\ ~lab.returned
  /\ lab' = [lab EXCEPT !.returned = TRUE, !.low = isLowLight(lab.video)]
  /\ UNCHANGED componentVars

\* img.onload of the next call of applyFilters (the first call is given the
\* lab's image, every other the data URL of the call before it): the image
\* is drawn on the call's canvas, the pixels are read back and filtered, and
\* the canvas is encoded
onload ==
  /\ lab.op = "applyFilters" /\ Len(lab.urls) < MaxPasses
  /\ LET img == IF lab.urls = <<>> THEN lab.img ELSE loadImage(lab.urls[Len(lab.urls)])
     IN lab' = [lab EXCEPT
                  !.bufs = @ \o <<drawnImage(img), filteredData(drawnImage(img), lab.options)>>,
                  !.urls = Append(@, applyFilters(img, lab.options))]
  /\ UNCHANGED componentVars

UtilsInit == InitComponent /\ variant = "main" /\ rig = "phone" /\ lab \in LabCalls

UtilsNext ==
  \/ sampleBrightness
  \/ onload

UtilsSpec == UtilsInit /\ [][UtilsNext]_vars

(***************************************************************************)
(* Properties.                                                             *)
(***************************************************************************)
Captures == 1..Len(caps)
InFlight(c) == c.pc \notin {"done", "archived"}
Has(c, e) == \E k \in 1..Len(c.log) : c.log[k] = e
IsPrefix(a, b) == Len(a) <= Len(b) /\ \A k \in 1..Len(a) : a[k] = b[k]

\* an event without the outcome of the device call
Shape(e) ==
  CASE e \in {"torchOnOk", "torchOnRej"}   -> "torchOnSettled"
    [] e \in {"torchOffOk", "torchOffRej"} -> "torchOffSettled"
    [] e \in {"lockOk", "lockRej"}         -> "lockSettled"
    [] OTHER -> e
ShapeOf(log) == [k \in 1..Len(log) |-> Shape(log[k])]

\* the capture runs on a torch-capable device in a scene it found low-light
LowLightOnTorchDevice(c) ==
  /\ c.pc # "archived" /\ c.lowLight /\ c.torchSupported /\ c.stream # 0
  /\ Profile(streams[c.stream].prof).torch

\* C1: a capture that has returned after its torch-on request was accepted
\* has sent the torch-off request (also when the frame grab threw).
TorchOffBeforeCaptureReturns ==
  \A i \in Captures :
    (caps[i].pc = "done" /\ Has(caps[i], "torchOnOk")) => Has(caps[i], "torchOffReq")

\* the events of a capture that the order of the low-light sequence is about
CycleEvents == {"torchOnReq", "illumSettled", "focusSettled", "grab", "torchOffReq"}
InCycle(e) == e \in CycleEvents
LowLightCycle ==
  <<"torchOnReq", "illumSettled", "focusSettled", "grab", "torchOffReq">>

\* C2: the events of a low-light capture on a torch-capable device come in
\* this order, each once: torch-on request, illumination settle delay, focus
\* settle delay, frame grab, torch-off request; a capture that has returned
\* has gone through all of them (one enable request, one disable request).
LowLightCycleExactlyOnce ==
  \A i \in Captures :
    LET c == caps[i] IN
    LowLightOnTorchDevice(c) =>
      /\ IsPrefix(SelectSeq(c.log, InCycle), LowLightCycle)
      /\ c.pc = "done" => SelectSeq(c.log, InCycle) = LowLightCycle

\* C3: at most one capture is between setProcessing(true) and its finally.
AtMostOneCaptureInFlight ==
  Cardinality({i \in Captures : InFlight(caps[i])}) <= 1

SecondCaptureInFlight ==
  Len(caps) = 2 /\ caps[1].pc = "archived" /\ InFlight(caps[2])

\* C4: a capture that sampled a video without dimensions does not find the
\* scene low-light and sends no torch request.
NoDimensionsIsAdequateLight ==
  \A i \in Captures :
    (caps[i].pc # "archived" /\ caps[i].sampled.w = 0) =>
      (~caps[i].lowLight /\ ~Has(caps[i], "torchOnReq"))

\* C5: a capture that grabbed a frame of zero size has reported a failure by
\* the time it has ended or waits for the post-processing of the empty image.
FrameUnavailableReported ==
  \A i \in Captures :
    (caps[i].grabbed /\ caps[i].raw.w = 0 /\ caps[i].pc \in {"filters", "done"})
      => caps[i].exc # "none"

\* C6: every torch request a capture has sent went to a track whose
\* capabilities advertise torch.
TorchRequestsOnlyToTorchTracks ==
  \A i \in Captures :
    (Has(caps[i], "torchOnReq") \/ Has(caps[i], "torchOffReq"))
      => getCapabilities(streams[caps[i].stream].prof).torch

\* C7: a capture in which a device call was rejected (torch on, torch off,
\* focus lock) is never aborted by it: its outer catch has caught nothing from
\* a device call, it is past the frame grab once it waits for the torch-off or
\* the filters, and it ends with its image stored unless the grab itself threw.
DeviceFailureNeverAborts ==
  \A i \in Captures :
    LET c == caps[i] IN
    c.rejected =>
      /\ c.exc # "device"
      /\ c.pc \in {"torchOff", "filters"} => c.grabbed
      /\ c.pc = "done" =>
           \/ c.exc = "grab"
           \/ c.grabbed /\ Has(c, "stored") /\ (mounted => capturedImage = i)

RejectedCaptureStored ==
  \E i \in Captures :
    /\ Has(caps[i], "torchOnRej") /\ Has(caps[i], "torchOffRej")
    /\ Has(caps[i], "stored") /\ capturedImage = i

\* C8: the stages run one after the other: the event after a device request
\* is its settlement, the event after the settled torch-on is the end of the
\* illumination delay, the event after an accepted focus lock is the end of
\* its wait, and the frame grab comes after all of them (in main, zoom and
\* legacy right after the focus settle delay).
Next1(c, k, es) == k < Len(c.log) => c.log[k + 1] \in es

StagesSequential ==
  \A i \in Captures :
    LET c == caps[i] IN
    \A k \in 1..Len(c.log) :
      /\ c.log[k] = "torchOnReq" =>
           /\ Next1(c, k, {"torchOnOk", "torchOnRej"})
           /\ k = Len(c.log) => c.pc = "torchOn"
      /\ c.log[k] \in {"torchOnOk", "torchOnRej"} =>
           /\ Next1(c, k, {"illumSettled"})
           /\ k = Len(c.log) => c.pc = "illum"
      /\ c.log[k] = "lockReq" => Next1(c, k, {"lockOk", "lockRej"})
      /\ c.log[k] = "lockOk" => Next1(c, k, {"focusSettled"})
      /\ c.log[k] = "torchOffReq" => Next1(c, k, {"torchOffOk", "torchOffRej"})
      /\ c.log[k] = "grab" =>
           /\ \A m \in 1..Len(c.log) :
                c.log[m] \in {"torchOnReq", "torchOnOk", "torchOnRej",
                              "illumSettled", "lockReq", "lockOk", "lockRej",
                              "focusSettled"} => m < k
           /\ Has(c, "torchOnReq") => Has(c, "illumSettled")
           /\ variant # "lock" => c.log[k - 1] = "focusSettled"

GrabAfterTorchSettled ==
  \E i \in Captures :
    /\ caps[i].grabbed /\ Has(caps[i], "torchOnOk") /\ Has(caps[i], "illumSettled")

\* C9: a track is never stopped while its torch is on, and no timer of a
\* capture that has switched the torch on fires after the teardown of the
\* session the capture runs in.
TeardownRevertsTorch ==
  [][ /\ \A sid \in 1..Len(streams) :
           (streams[sid].live /\ ~streams'[sid].live) => ~streams[sid].torch
      /\ \A i \in Captures :
           (/\ caps[i].pc \in {"illum", "focus", "lockWait"}
            /\ Has(caps[i], "torchOnOk")
            /\ caps'[i] # caps[i]) => ~TornDown(caps[i]) ]_vars

\* C10: the canvas after a frame grab is the grabbed frame mirrored (column x
\* is column width-1-x of the frame) if the capture runs with facingMode
\* 'user', and the grabbed frame itself if not.
Mirrored(v) == [x \in 1..v.w |-> FramePixel(v, v.w - x)]

MirroredIffFront ==
  (canvas.by # 0 /\ caps[canvas.by].grabbed) =>
    LET c == caps[canvas.by] IN
    /\ canvas.w = c.raw.w
    /\ canvas.px = IF c.facingMode = "user" THEN Mirrored(c.raw) ELSE FramePx(c.raw)

FrontCaptureMirrored ==
  /\ canvas.by # 0 /\ caps[canvas.by].grabbed
  /\ caps[canvas.by].facingMode = "user"
  /\ caps[canvas.by].raw.w > 0
  /\ caps[canvas.by].raw.cL # caps[canvas.by].raw.cR
  /\ canvas.px # FramePx(caps[canvas.by].raw)
\* the startCamera invocations, and those that got a stream from getUserMedia
Starts == 1..Len(starts)
GotStream(s) == s.sid # 0
Settled(s) == s.pc \in {"done", "failed"}
ZoomCap(s) == Profile(streams[s.sid].prof).zoom

\* C12: a startCamera invocation whose getUserMedia succeeded does not end in
\* its catch (error set), whatever capabilities the track lacks.
NegotiationNeverFails ==
  \A i \in Starts : GotStream(starts[i]) => starts[i].pc # "failed"

\* C13: where startCamera selects and applies a default zoom (main, zoom) on
\* a track that reports a zoom range, the selected zoom lies in that range.
DefaultZoomWithinRange ==
  \A i \in Starts :
    LET s == starts[i] IN
    (/\ variant \in {"main", "zoom"}
     /\ GotStream(s) /\ s.pc \in {"zoom", "focus", "done"}
     /\ ZoomCap(s) # <<>>
     /\ Profile(streams[s.sid].prof).applyConstraints)
    => (ZoomCap(s)[1] <= s.z /\ s.z <= ZoomCap(s)[2])

\* a step in which a capability-dependent request settles, or fails in its
\* call: the initial zoom and focus hints of startCamera, a zoom change, a
\* tap to focus, the torch (and focus lock) requests of a capture
RequestSettles ==
  \/ \E i \in Starts : starts[i].pc \in {"zoom", "focus"} /\ starts'[i] # starts[i]
  \/ \E j \in 1..Len(ui) : ui[j].pc # "done" /\ ui'[j] # ui[j]
  \/ \E i \in Captures : caps[i].pc \in {"torchOn", "torchOff", "lockApply"}
                            /\ caps'[i] # caps[i]
  \/ \E i \in 1..Len(caps') : caps'[i].rejected /\ (i \in Captures => ~caps[i].rejected)

\* C14: no settlement of a capability-dependent request (initial zoom and
\* focus hints of startCamera, zoom change, tap to focus, torch) aborts the
\* session: the invocation goes on or ends normally, no exception leaves a
\* handler or reaches the catch of a capture, the error state is not set and
\* no track is stopped.
RejectionsNeverAbort ==
  [][/\ \A j \in 1..Len(ui') : ~ui'[j].escaped
     /\ \A i \in 1..Len(caps') : caps'[i].exc # "device"
     /\ RequestSettles =>
          /\ error' = error
          /\ \A k \in 1..Len(streams) : streams'[k].live = streams[k].live
          /\ \A i \in Starts : starts[i].pc \in {"zoom", "focus"}
                                 => starts'[i].pc # "failed"
          /\ \A i \in Captures :
               (caps[i].pc \in {"torchOn", "torchOff"} /\ caps'[i].pc = "done")
               => caps'[i].exc = "none"]_vars

\* C14 witness: a tap to focus or zoom change has ended after the device
\* rejected its request, and a capture has stored its image after the device
\* rejected both of its torch requests, all on a track that is still live
RejectedHandlerEnded ==
  /\ ~error
  /\ \E j \in 1..Len(ui) :
       /\ ui[j].pc = "done" /\ ui[j].rejected /\ ui[j].stream # 0
       /\ Profile(streams[ui[j].stream].prof).applyConstraints
       /\ streams[ui[j].stream].live
  /\ \E i \in Captures :
       /\ Has(caps[i], "torchOnRej") /\ Has(caps[i], "torchOffRej")
       /\ caps[i].pc = "done" /\ caps[i].exc = "none"
       /\ streams[caps[i].stream].live

\* C15: once every startCamera has settled, the capability state is not
\* that of an earlier stream: torchSupported, showZoom and a zoomRange other
\* than the initial one are backed by the track of the current stream.
CapabilitiesOfActiveStream ==
  (/\ mounted /\ stream # 0 /\ streams[stream].live
   /\ \A i \in Starts : Settled(starts[i]))
  => LET c == getCapabilities(streams[stream].prof) IN
     /\ torchSupported => c.torch
     /\ showZoom => c.zoom # <<>>
     /\ zoomRange # <<10, 10>> => zoomRange = c.zoom

\* exact arithmetic for stating the properties: the luminance times 1000,
\* fractions <<n, d>> with d > 0, and the factor of the contrast formula
\* (contrast in tenths, the common 255 / 10 taken out)
ExactLuminance(c) == 299 * c[1] + 587 * c[2] + 114 * c[3]
Frac(n, d) == IF d < 0 THEN <<-n, -d>> ELSE <<n, d>>
ExactFactor(contrast) == Frac(259 * (contrast + 10), 2590 - 255 * contrast)

\* a finished call of isLowLight, and twice the mean luminance (times 1000)
\* of its frame, whose halves have one colour each
Sampled == lab.op = "isLowLight" /\ lab.returned
TwiceMean(v) == ExactLuminance(v.cL) + ExactLuminance(v.cR)

\* C11: isLowLight returns true exactly when the mean luminance of the
\* 50 x 50 sample is below 80: true for black (mean 0), false for white
\* (mean 255), false for a mean of exactly 80.
LowLightIffMeanBelow80 ==
  Sampled =>
    /\ lab.low <=> (TwiceMean(lab.video) < 2 * 80 * 1000)
    /\ TwiceMean(lab.video) = 0 => lab.low
    /\ TwiceMean(lab.video) = 2 * 255 * 1000 => ~lab.low
    /\ TwiceMean(lab.video) = 2 * 80 * 1000 => ~lab.low

\* lab.bufs holds more than n pixel buffers (bufs[1] is the pixel data the
\* first call of applyFilters read, bufs[2] the data it put back); n calls
\* of applyFilters or more have resolved
Filtered(n) == lab.op = "applyFilters" /\ Len(lab.bufs) > n
Called(n) == lab.op = "applyFilters" /\ Len(lab.urls) >= n
Pixels == 1..9

\* y is an integer nearest to the fraction v clamped to 0..255
IsNearest(y, v) ==
  /\ y \in 0..255
  /\ v[1] <= 0 => y = 0
  /\ v[1] >= 255 * v[2] => y = 255
  /\ (0 < v[1] /\ v[1] < 255 * v[2]) =>
        (2 * (v[1] - y * v[2]) <= v[2] /\ 2 * (y * v[2] - v[1]) <= v[2])

\* the options {grayscale: true, contrast: 1.0, brightness: 0, sharpen: 0}
GrayscaleOnly == [grayscale |-> TRUE, contrast |-> 10, brightness |-> 0, sharpen |-> 0]

\* C16: with {grayscale: true, contrast: 1.0, brightness: 0, sharpen: 0}
\* every pixel of the image applyFilters returns has R = G = B = the
\* luminance of the input pixel (to the nearest integer a channel can hold)
\* and the alpha of the input pixel.
GrayscaleOutputIsLuminance ==
  (Called(1) /\ lab.options = GrayscaleOnly)
  => \A k \in Pixels :
       LET in == lab.img[k]
           out == loadImage(lab.urls[1])[k]
       IN /\ out[1] = out[2] /\ out[2] = out[3]
          /\ IsNearest(out[1], <<ExactLuminance(in), 1000>>)
          /\ out[4] = in[4]

\* C16, amended: with {grayscale: true, contrast: 1.0, brightness: 0,
\* sharpen: 0} every pixel applyFilters puts back on its canvas, which is
\* what it encodes, has R = G = B = the luminance of the pixel it read (to
\* the nearest integer a channel can hold) and the alpha it read.
GrayscaleOnlyGivesLuminance ==
  (/\ Filtered(1)
   /\ lab.options = [grayscale |-> TRUE, contrast |-> 10, brightness |-> 0,
                     sharpen |-> 0])
  => \A k \in Pixels :
       LET in == lab.bufs[1][k]
           out == lab.bufs[2][k]
       IN /\ out[1] = out[2] /\ out[2] = out[3]
          /\ IsNearest(out[1], <<ExactLuminance(in), 1000>>)
          /\ out[4] = in[4]

\* C16 witness: a coloured, half-transparent pixel was made gray
ColourMadeGray ==
  /\ Filtered(1)
  /\ lab.options = [grayscale |-> TRUE, contrast |-> 10, brightness |-> 0,
                    sharpen |-> 0]
  /\ lab.bufs[1][Centre] = <<10, 20, 255, 128>>
  /\ lab.bufs[2][Centre] # lab.bufs[1][Centre]

\* C17: with contrast 1.0 and brightness 0, grayscale on or off, a second
\* application of the pixel transform changes nothing: not when applied to
\* the pixels the first application produced, and not in a second call of
\* applyFilters, on the pixels decoded from what the first call returned.
FilterIdempotent ==
  (lab.op = "applyFilters" /\ lab.options.contrast = 10 /\ lab.options.brightness = 0)
  => /\ Filtered(1) => filteredData(lab.bufs[2], lab.options) = lab.bufs[2]
     /\ Called(2) => lab.bufs[4] = lab.bufs[3]

\* C17 witness: the first call changed the image, and the second call ran
\* on pixels that differ from those the first one encoded
SecondPassRan ==
  /\ Called(2) /\ lab.options.contrast = 10 /\ lab.options.brightness = 0
  /\ lab.options.grayscale /\ lab.bufs[2] # lab.bufs[1]
  /\ lab.bufs[3] # lab.bufs[2]

\* C18: with contrast 2.0 (and no negative brightness) a channel that is 255
\* comes out as 255.
ContrastTwoKeepsWhite ==
  (/\ Filtered(1) /\ lab.options.contrast = 20 /\ lab.options.brightness >= 0)
  => \A k \in Pixels, ch \in 1..3 :
       (lab.bufs[1][k] = <<255, 255, 255, 255>>) => lab.bufs[2][k][ch] = 255

\* the value the formula of the contract gives for channel value v (a
\* fraction): factor * (v - 128) + 128 + brightness, v itself for contrast 1.0
ContractValue(v, options) ==
  LET f == IF options.contrast = 10 THEN <<1, 1>> ELSE ExactFactor(options.contrast)
  IN <<f[1] * (v[1] - 128 * v[2]) + (128 + options.brightness) * f[2] * v[2],
       f[2] * v[2]>>

\* C19: every colour channel of the image applyFilters returns is the one
\* clamp of factor * (v - 128) + 128 + brightness, v the input channel or,
\* with grayscale, the luminance; factor * 255 * (259 - contrast * 255) is
\* 259 * (contrast * 255 + 255); contrast 1.0 leaves v as it is.
OutputPixelFormula ==
  (Called(1) /\ (lab.options.grayscale \/ lab.options.contrast # 10
                   \/ lab.options.brightness # 0))
  => /\ LET c == lab.options.contrast IN
        ExactFactor(c)[1] * (2590 - 255 * c) = ExactFactor(c)[2] * 259 * (c + 10)
     /\ \A k \in Pixels, ch \in 1..3 :
          LET in == lab.img[k]
              v == IF lab.options.grayscale THEN <<ExactLuminance(in), 1000>>
                   ELSE <<in[ch], 1>>
          IN IsNearest(loadImage(lab.urls[1])[k][ch], ContractValue(v, lab.options))

\* C19, amended: every colour channel applyFilters puts back on its canvas,
\* which is what it encodes, is the one clamp of
\* factor * (v - 128) + 128 + brightness, v the channel it read or, with
\* grayscale, the luminance; factor * 255 * (259 - contrast * 255) is
\* 259 * (contrast * 255 + 255); contrast 1.0 leaves v as it is.
PixelFormula ==
  (Filtered(1) /\ (lab.options.grayscale \/ lab.options.contrast # 10
                     \/ lab.options.brightness # 0))
  => /\ LET c == lab.options.contrast IN
        ExactFactor(c)[1] * (2590 - 255 * c) = ExactFactor(c)[2] * 259 * (c + 10)
     /\ \A k \in Pixels, ch \in 1..3 :
          LET in == lab.bufs[1][k]
              v == IF lab.options.grayscale THEN <<ExactLuminance(in), 1000>>
                   ELSE <<in[ch], 1>>
          IN IsNearest(lab.bufs[2][k][ch], ContractValue(v, lab.options))

\* C19 witness: grayscale, contrast and brightness all applied to a pixel
\* whose result is not at either end of the range
AllStagesApplied ==
  /\ Filtered(1)
  /\ lab.options.grayscale /\ lab.options.contrast = 12 /\ lab.options.brightness = 20
  /\ lab.bufs[1][Centre] = <<200, 100, 50, 255>>
  /\ lab.bufs[2][Centre][1] \in 1..254

\* the 3 x 3 kernel (centre 5, the four neighbours -1, corners 0) at the
\* centre of image d, blended with the original by weight sharpen / 10
Sharpened(d, ch, sharpen) ==
  LET c == d[Centre][ch]
      conv == 5 * c - d[2][ch] - d[4][ch] - d[6][ch] - d[8][ch]
  IN <<(10 - sharpen) * c + sharpen * conv, 10>>

\* C20: with sharpen > 0 the centre pixel comes out as the kernel's result
\* blended with the pixel the clamp stage left; with sharpen 0 it is the
\* pixel the clamp stage left.
SharpenAppliesKernel ==
  Filtered(1) =>
    LET staged == [k \in Pixels |-> filterPixel(lab.bufs[1][k], lab.options,
                                             factor(lab.options.contrast))]
        looped == IF lab.options.grayscale \/ lab.options.contrast # 10
                     \/ lab.options.brightness # 0
                  THEN staged ELSE lab.bufs[1]
    IN \A ch \in 1..3 :
         IF lab.options.sharpen > 0
         THEN IsNearest(lab.bufs[2][Centre][ch], Sharpened(looped, ch, lab.options.sharpen))
         ELSE lab.bufs[2][Centre][ch] = looped[Centre][ch]

\* C22: a capture draws its frame on a buffer no other capture has drawn on.
CaptureBufferNotShared ==
  [][\A i \in 1..Len(caps') :
       (canvas'.by = i /\ canvas.by # i) => canvas.by = 0]_vars

\* C23: a capture whose brightness sample is at or above the threshold, or
\* that runs with torchSupported false, sends no torch request (on or off)
\* and does not wait the illumination settle delay.
TorchOnlyWhenDimAndSupported ==
  \A i \in Captures :
    LET c == caps[i] IN
    (c.pc # "archived" /\ (TwiceMean(c.sampled) >= 2 * 80 * 1000 \/ ~c.torchSupported))
    => /\ ~Has(c, "torchOnReq") /\ ~Has(c, "torchOffReq") /\ ~Has(c, "illumSettled")
       /\ c.pc \notin {"torchOn", "illum", "torchOff"}

\* C23 witness: a capture of a bright scene on a torch-capable session has
\* grabbed its frame
BrightCaptureGrabbed ==
  \E i \in Captures :
    /\ caps[i].grabbed /\ caps[i].torchSupported
    /\ caps[i].sampled.w > 0 /\ TwiceMean(caps[i].sampled) >= 2 * 80 * 1000

\* C24: every capture that has grabbed a frame has waited the focus settle
\* delay before it.
FocusWaitBeforeEveryGrab ==
  \A i \in Captures : Has(caps[i], "grab") => Has(caps[i], "focusSettled")

\* C25: no capture waits for a post-processing that cannot finish: a capture
\* that awaits applyFilters has given it an image that loads.
NoCaptureStuck ==
  \A i \in Captures : caps[i].pc = "filters" => imageLoads(caps[i].url)

\* C27: when a capture that was started on the camera of its facing mode
\* grabs a frame after the camera was switched, the canvas holds the frame
\* mirrored if the stream the video element shows by then is a front camera,
\* and as it is if not.
MirrorMatchesCamera ==
  [][\A i \in 1..Len(caps') :
       (/\ caps'[i].grabbed /\ (i <= Len(caps) => ~caps[i].grabbed)
        /\ caps'[i].stream # 0
        /\ streams[caps'[i].stream].facing = caps'[i].facingMode
        /\ facingMode # caps'[i].facingMode
        /\ video.w > 0 /\ srcObject # 0)
       => canvas'.px = IF streams[srcObject].facing = "user"
                       THEN Mirrored(video) ELSE FramePx(video)]_vars

\* C28: the torch-off request of a capture goes to the track its torch-on
\* request went to.
TorchOffSameTrack ==
  \A i \in Captures : caps[i].offTrack # 0 => caps[i].offTrack = caps[i].onTrack

\* C28 witness: the torch-off request was sent after the stream was replaced
TorchOffAfterStreamReplaced ==
  \E i \in Captures :
    /\ caps[i].offTrack # 0 /\ caps[i].onTrack # 0
    /\ stream # 0 /\ stream # caps[i].onTrack

\* C29: capturedImage changes only in the step that ends a capture without
\* an exception, once, to that capture's image; a step in which a capture
\* fails leaves it as it was.
CapturedImageOnlyOnSuccess ==
  [][/\ capturedImage' # capturedImage =>
          \E i \in Captures :
            /\ caps[i].pc = "filters" /\ caps'[i].pc = "done"
            /\ caps'[i].exc = "none" /\ ~Has(caps[i], "stored")
            /\ capturedImage' = i
     /\ \A i \in 1..Len(caps') :
          (caps'[i].exc # "none" /\ (i <= Len(caps) => caps[i].exc = "none"))
          => capturedImage' = capturedImage]_vars

\* C29 witness: a capture has failed while the image of an earlier one was held
FailedCaptureKeptImage ==
  /\ Len(caps) = 2 /\ capturedImage = 1
  /\ caps[2].pc = "done" /\ caps[2].exc = "grab"


\* the stream the component holds on to: streamRef.current (legacy has no
\* ref and keeps the stream in its state)
Held == IF variant = "legacy" THEN stream ELSE streamRef

\* C26: once every startCamera invocation has settled, whatever the order of
\* camera switches, retries, getUserMedia results and unmount was, every
\* acquired stream whose tracks were not stopped is the one the component
\* holds: no live camera stream is leaked.
NoLeakedStream ==
  (\A i \in Starts : Settled(starts[i]))
  => \A k \in 1..Len(streams) : streams[k].live => k = Held

\* C30: the step in which a startCamera invocation settles on a mounted
\* component leaves loading false, and leaves error set exactly when that
\* invocation ended in its catch.
StartSettlesClean ==
  [][\A i \in Starts :
       (mounted /\ ~Settled(starts[i]) /\ Settled(starts'[i]))
       => /\ loading' = FALSE
          /\ error' <=> (starts'[i].pc = "failed")]_vars

\* the contrast and brightness the captures pass to applyFilters, with
\* grayscale on: 1.2 and 20 (main, lock), 1.1 and 0 (zoom, legacy)
CaptureRemaps == {<<12, 20>>, <<11, 0>>}

\* C31: with the options a capture passes, a pixel that is not darker than
\* another on input (by luminance) is not darker than it on output.
RemapOrderPreserving ==
  (/\ Filtered(1) /\ lab.options.grayscale
   /\ <<lab.options.contrast, lab.options.brightness>> \in CaptureRemaps)
  => \A j, k \in Pixels :
       ExactLuminance(lab.bufs[1][j]) <= ExactLuminance(lab.bufs[1][k])
       => lab.bufs[2][j][1] <= lab.bufs[2][k][1]

\* C32: a tap that takes the zoom wiggle never requests a zoom above the
\* maximum of zoomRange, and in the step that ends it, after a rejected
\* request too, the zoom of the track is the one it had when the screen was
\* tapped.  The tap is taken on a track whose zoom is the zoom state, and
\* ends while no startCamera and no other handler is under way.
WiggleRestoresZoom ==
  [][\A j \in 1..Len(ui) :
       (/\ ui[j].kind = "tap" /\ ui[j].pc \in {"wiggle", "restore"}
        /\ ui'[j].pc = "done"
        /\ ui[j].zoom = ui[j].devZoom
        /\ streams[ui[j].stream].zoom \in {ui[j].devZoom, ui[j].val}
        /\ \A i \in Starts : Settled(starts[i])
        /\ \A k \in 1..Len(ui) : k # j => ui[k].pc = "done")
       => /\ ui[j].val <= ui[j].zmax
          /\ streams'[ui[j].stream].zoom = ui[j].devZoom]_vars
====
